---------------------------- MODULE Spec2Model ----------------------------
(***************************************************************************)
(* A model of the JSON repair pipeline of src/main.py.                     *)
(*                                                                         *)
(* A text is a sequence of characters; a character is a one-character      *)
(* string.  Indices are those of the source (0-based): At(s, i) is s[i].   *)
(* No text of the model holds "-", "+" or ".", or a digit followed by "e"   *)
(* or "E": every number of the model is an integer without a sign.         *)
(***************************************************************************)
EXTENDS Integers, Sequences, FiniteSets, TLC

Q  == "\""
BS == "\\"
NL == "\n"
CR == "\r"
TAB == "\t"
SP == " "

\* The character a \uXXXX escape decodes to is named by its four hex digits.
\* Only "1" and "a" of the hex digits are used.
UChar(h) == "u" \o h[1] \o h[2] \o h[3] \o h[4]
UCharSet == { UChar(h) : h \in [1..4 -> { "1", "a" }] }

WS4        == { SP, TAB, NL, CR }
Digits     == { "0", "1", "2", "3", "4", "5", "6", "7", "8", "9" }
Lower      == { "a", "b", "c", "d", "e", "f", "g", "h", "i", "j", "k", "l", "m",
                "n", "o", "p", "q", "r", "s", "t", "u", "v", "w", "x", "y", "z" }
Upper      == { "A", "B", "C", "D", "E", "F", "G", "H", "I", "J", "K", "L", "M",
                "N", "O", "P", "Q", "R", "S", "T", "U", "V", "W", "X", "Y", "Z" }
HexDigits  == Digits \cup { "a", "b", "c", "d", "e", "f", "A", "B", "C", "D", "E", "F" }

IsUChar(c)    == c \in UCharSet
IsSpace(c)    == c \in WS4
IsDigit(c)    == c \in Digits
IsIdentStart(c) == c \in Lower \cup Upper \cup { "_" }
IsIdentChar(c)  == c \in Lower \cup Upper \cup Digits \cup { "_" }
IsWordChar(c) == IsUChar(c) \/ IsIdentChar(c)

At(s, i) == s[i + 1]
\* s[a:b] of Python for 0 <= a, b
Slice(s, a, b) ==
    LET hi == IF b > Len(s) THEN Len(s) ELSE b
    IN  IF a >= hi THEN <<>> ELSE SubSeq(s, a + 1, hi)
StartsWithAt(s, i, w) ==
    /\ i + Len(w) <= Len(s)
    /\ \A k \in 1..Len(w) : s[i + k] = w[k]
EndsWith(s, w) == Len(s) >= Len(w) /\ StartsWithAt(s, Len(s) - Len(w), w)

(***************************************************************************)
(* The strict parser: json.loads, and json.dumps of the value it returns.  *)
(***************************************************************************)

\* A JSON value.  t is "str" (s its characters), "int" (s its digits),
\* "lit" (s the literal as json.dumps writes it), "arr" (vs its items) or
\* "obj" (ks its keys in insertion order, vs their values).
Val(t, s, ks, vs) == [t |-> t, s |-> s, ks |-> ks, vs |-> vs]
NoVal == Val("none", <<>>, <<>>, <<>>)

\* The result of a scanning step: the value and the index after it, or the
\* error (the message of the JSONDecodeError and its position).
Good(v, idx)   == [ok |-> TRUE,  val |-> v,     idx |-> idx, kind |-> "",   pos |-> 0]
Bad(kind, pos) == [ok |-> FALSE, val |-> NoVal, idx |-> 0,   kind |-> kind, pos |-> pos]

RECURSIVE skip_ws(_, _)
skip_ws(s, idx) ==
    IF idx < Len(s) /\ IsSpace(At(s, idx)) THEN skip_ws(s, idx + 1) ELSE idx

\* What a one-character escape decodes to ("" when it is invalid).
EscapeChar(c) ==
    CASE c = Q -> Q
      [] c = BS -> BS
      [] c = "/" -> "/"
      [] c = "b" -> "\\b"
      [] c = "f" -> "\f"
      [] c = "n" -> NL
      [] c = "r" -> CR
      [] c = "t" -> TAB
      [] OTHER -> ""

IsControl(c) == c \in { NL, CR, TAB, "\f", "\\b" }

\* scanstring: `next` is the index being read, `begin` that of the opening
\* quote, acc the characters decoded so far.
RECURSIVE scanstring(_, _, _, _)
scanstring(s, next, begin, acc) ==
    IF next >= Len(s) THEN Bad("Unterminated string starting at", begin)
    ELSE LET c == At(s, next) IN
         IF c = Q THEN Good(Val("str", acc, <<>>, <<>>), next + 1)
         ELSE IF c # BS THEN
             IF IsControl(c) THEN Bad("Invalid control character at", next)
             ELSE scanstring(s, next + 1, begin, Append(acc, c))
         ELSE IF next + 1 >= Len(s) THEN Bad("Unterminated string starting at", begin)
         ELSE LET e == At(s, next + 1) IN
              IF e # "u" THEN
                  IF EscapeChar(e) = "" THEN Bad("Invalid \\escape", next)
                  ELSE scanstring(s, next + 2, begin, Append(acc, EscapeChar(e)))
              ELSE IF next + 6 >= Len(s) THEN Bad("Invalid \\uXXXX escape", next + 1)
              ELSE LET h == Slice(s, next + 2, next + 6) IN
                   IF \E k \in 1..4 : h[k] \notin HexDigits
                   THEN Bad("Invalid \\uXXXX escape", next + 1)
                   ELSE scanstring(s, next + 6, begin, Append(acc, UChar(h)))

RECURSIVE digits_end(_, _)
digits_end(s, idx) ==
    IF idx < Len(s) /\ IsDigit(At(s, idx)) THEN digits_end(s, idx + 1) ELSE idx

\* NUMBER_RE on texts without "-", ".", "e" or "E" after a digit:
\* (0|[1-9]\d*).  The index after the match, or idx when there is none.
match_number(s, idx) ==
    IF idx >= Len(s) \/ ~IsDigit(At(s, idx)) THEN idx
    ELSE IF At(s, idx) = "0" THEN idx + 1
    ELSE digits_end(s, idx)

\* The object so far with key k set to v: the last value of a key wins and
\* the key keeps the place of its first occurrence (a Python dict).
DictSet(ks, vs, k, v) ==
    IF \E i \in 1..Len(ks) : ks[i] = k
    THEN LET i == CHOOSE i \in 1..Len(ks) : ks[i] = k
         IN  <<ks, [vs EXCEPT ![i] = v]>>
    ELSE <<Append(ks, k), Append(vs, v)>>

RECURSIVE scan_once(_, _)
RECURSIVE parse_object(_, _, _, _)
RECURSIVE parse_array(_, _, _)

scan_once(s, idx) ==
    IF idx >= Len(s) THEN Bad("Expecting value", idx)
    ELSE LET c == At(s, idx) IN
         CASE c = Q -> scanstring(s, idx + 1, idx, <<>>)
           [] c = "{" ->
                LET i == skip_ws(s, idx + 1) IN
                IF i < Len(s) /\ At(s, i) = "}"
                THEN Good(Val("obj", <<>>, <<>>, <<>>), i + 1)
                ELSE parse_object(s, i, <<>>, <<>>)
           [] c = "[" ->
                LET i == skip_ws(s, idx + 1) IN
                IF i < Len(s) /\ At(s, i) = "]"
                THEN Good(Val("arr", <<>>, <<>>, <<>>), i + 1)
                ELSE parse_array(s, i, <<>>)
           [] c = "n" /\ StartsWithAt(s, idx, <<"n", "u", "l", "l">>) ->
                Good(Val("lit", <<"n", "u", "l", "l">>, <<>>, <<>>), idx + 4)
           [] c = "t" /\ StartsWithAt(s, idx, <<"t", "r", "u", "e">>) ->
                Good(Val("lit", <<"t", "r", "u", "e">>, <<>>, <<>>), idx + 4)
           [] c = "f" /\ StartsWithAt(s, idx, <<"f", "a", "l", "s", "e">>) ->
                Good(Val("lit", <<"f", "a", "l", "s", "e">>, <<>>, <<>>), idx + 5)
           [] c = "N" /\ StartsWithAt(s, idx, <<"N", "a", "N">>) ->
                Good(Val("lit", <<"N", "a", "N">>, <<>>, <<>>), idx + 3)
           [] c = "I" /\ StartsWithAt(s, idx, <<"I", "n", "f", "i", "n", "i", "t", "y">>) ->
                Good(Val("lit", <<"I", "n", "f", "i", "n", "i", "t", "y">>, <<>>, <<>>),
                     idx + 8)
           [] OTHER ->
                LET e == match_number(s, idx) IN
                IF e = idx THEN Bad("Expecting value", idx)
                ELSE Good(Val("int", Slice(s, idx, e), <<>>, <<>>), e)

\* The loop of _parse_object: idx is where the next key is read.
parse_object(s, idx, ks, vs) ==
    IF idx >= Len(s) \/ At(s, idx) # Q
    THEN Bad("Expecting property name enclosed in double quotes", idx)
    ELSE LET after_value(key, v) ==
                 IF ~v.ok THEN v
                 ELSE LET d  == DictSet(ks, vs, key.val.s, v.val)
                          i2 == skip_ws(s, v.idx)
                      IN  IF i2 < Len(s) /\ At(s, i2) = "}"
                          THEN Good(Val("obj", <<>>, d[1], d[2]), i2 + 1)
                          ELSE IF i2 >= Len(s) \/ At(s, i2) # ","
                          THEN Bad("Expecting ',' delimiter", i2)
                          ELSE parse_object(s, skip_ws(s, i2 + 1), d[1], d[2])
             after_key(key) ==
                 IF ~key.ok THEN key
                 ELSE LET i1 == skip_ws(s, key.idx) IN
                      IF i1 >= Len(s) \/ At(s, i1) # ":"
                      THEN Bad("Expecting ':' delimiter", i1)
                      ELSE after_value(key, scan_once(s, skip_ws(s, i1 + 1)))
         IN  after_key(scanstring(s, idx + 1, idx, <<>>))

\* The loop of _parse_array: idx is where the next item is read.
parse_array(s, idx, vs) ==
    LET after_value(v) ==
            IF ~v.ok THEN v
            ELSE LET i2 == skip_ws(s, v.idx) IN
                 IF i2 < Len(s) /\ At(s, i2) = "]"
                 THEN Good(Val("arr", <<>>, <<>>, Append(vs, v.val)), i2 + 1)
                 ELSE IF i2 >= Len(s) \/ At(s, i2) # ","
                 THEN Bad("Expecting ',' delimiter", i2)
                 ELSE parse_array(s, skip_ws(s, i2 + 1), Append(vs, v.val))
    IN  after_value(scan_once(s, idx))

\* json.loads(s)
json_loads(s) ==
    LET end(r) ==
            IF ~r.ok THEN r
            ELSE LET e == skip_ws(s, r.idx) IN
                 IF e # Len(s) THEN Bad("Extra data", e) ELSE r
    IN  end(scan_once(s, skip_ws(s, 0)))

\* The characters json.dumps(..., ensure_ascii=False) writes for one character.
DumpChar(c) ==
    CASE c = Q -> <<BS, Q>>
      [] c = BS -> <<BS, BS>>
      [] c = NL -> <<BS, "n">>
      [] c = CR -> <<BS, "r">>
      [] c = TAB -> <<BS, "t">>
      [] c = "\f" -> <<BS, "f">>
      [] c = "\\b" -> <<BS, "b">>
      [] OTHER -> <<c>>

RECURSIVE DumpChars(_)
DumpChars(cs) == IF cs = <<>> THEN <<>> ELSE DumpChar(Head(cs)) \o DumpChars(Tail(cs))

DumpStr(cs) == <<Q>> \o DumpChars(cs) \o <<Q>>

RECURSIVE Spaces(_)
Spaces(n) == IF n <= 0 THEN <<>> ELSE <<SP>> \o Spaces(n - 1)

\* json.dumps(v, ensure_ascii=False, indent=ind); ind = -1 stands for
\* indent=None.  level is the nesting depth of v.
RECURSIVE json_dumps(_, _, _)
RECURSIVE DumpItems(_, _, _, _, _)
DumpItems(ks, vs, k, ind, level) ==
    IF k > Len(vs) THEN <<>>
    ELSE (IF k = 1 THEN <<>>
          ELSE IF ind < 0 THEN <<",", SP>> ELSE <<",">>)
         \o (IF ind < 0 THEN <<>> ELSE <<NL>> \o Spaces(ind * level))
         \o (IF ks = <<>> THEN <<>> ELSE DumpStr(ks[k]) \o <<":", SP>>)
         \o json_dumps(vs[k], ind, level)
         \o DumpItems(ks, vs, k + 1, ind, level)

json_dumps(v, ind, level) ==
    CASE v.t = "str" -> DumpStr(v.s)
      [] v.t \in { "int", "lit" } -> v.s
      [] v.t = "arr" ->
            IF v.vs = <<>> THEN <<"[", "]">>
            ELSE <<"[">> \o DumpItems(<<>>, v.vs, 1, ind, level + 1)
                 \o (IF ind < 0 THEN <<>> ELSE <<NL>> \o Spaces(ind * level))
                 \o <<"]">>
      [] v.t = "obj" ->
            IF v.vs = <<>> THEN <<"{", "}">>
            ELSE <<"{">> \o DumpItems(v.ks, v.vs, 1, ind, level + 1)
                 \o (IF ind < 0 THEN <<>> ELSE <<NL>> \o Spaces(ind * level))
                 \o <<"}">>

\* The line and the column str(JSONDecodeError) reports for position pos.
RECURSIVE CountNL(_, _)
CountNL(s, pos) ==
    IF pos <= 0 THEN 0
    ELSE (IF At(s, pos - 1) = NL THEN 1 ELSE 0) + CountNL(s, pos - 1)
RECURSIVE LastNLBefore(_, _)
LastNLBefore(s, pos) ==
    IF pos <= 0 THEN -1
    ELSE IF At(s, pos - 1) = NL THEN pos - 1 ELSE LastNLBefore(s, pos - 1)
ErrLine(s, pos) == CountNL(s, pos) + 1
ErrCol(s, pos)  == pos - LastNLBefore(s, pos)

\* try_parse_json: (True, the pretty JSON) or (False, the error message).
\* The message "kind: line L column C (char N)" is kept as its parts.
try_parse_json(s) ==
    LET result(r) ==
            IF r.ok
            THEN [ok |-> TRUE, text |-> json_dumps(r.val, 2, 0), kind |-> "", pos |-> 0,
                  line |-> 0, col |-> 0]
            ELSE [ok |-> FALSE, text |-> <<>>, kind |-> r.kind, pos |-> r.pos,
                  line |-> ErrLine(s, r.pos), col |-> ErrCol(s, r.pos)]
    IN  result(json_loads(s))

(***************************************************************************)
(* The scanner and the substitution outside string literals.               *)
(***************************************************************************)

\* _compute_string_ranges: the (start, end) pairs, both ends included.
RECURSIVE string_ranges_from(_, _, _, _, _, _)
string_ranges_from(s, i, in_string, escape_next, start, ranges) ==
    IF i >= Len(s)
    THEN IF in_string /\ start >= 0 THEN Append(ranges, <<start, Len(s) - 1>>) ELSE ranges
    ELSE LET ch == At(s, i) IN
         IF escape_next THEN string_ranges_from(s, i + 1, in_string, FALSE, start, ranges)
         ELSE IF ch = BS THEN string_ranges_from(s, i + 1, in_string, TRUE, start, ranges)
         ELSE IF ch = Q THEN
             IF ~in_string THEN string_ranges_from(s, i + 1, TRUE, FALSE, i, ranges)
             ELSE string_ranges_from(s, i + 1, FALSE, FALSE, -1, Append(ranges, <<start, i>>))
         ELSE string_ranges_from(s, i + 1, in_string, FALSE, start, ranges)

\* The ranges of a scanner that takes a backslash for an ordinary character.
ranges_ignoring_escapes(s) ==
    string_ranges_from([k \in 1..Len(s) |-> IF s[k] = BS THEN "a" ELSE s[k]],
                       0, FALSE, FALSE, -1, <<>>)
compute_string_ranges(s) == string_ranges_from(s, 0, FALSE, FALSE, -1, <<>>)

\* The index is taken to be outside every string literal.
in_no_range(idx, ranges) == FALSE
index_in_ranges(idx, ranges) ==
    \E k \in 1..Len(ranges) : ranges[k][1] <= idx /\ idx <= ranges[k][2]

\* \s of the regular expressions, and the index after a run of it.
IsReSpace(c) == c \in WS4 \cup { "\f" }
RECURSIVE re_ws(_, _)
re_ws(s, i) == IF i < Len(s) /\ IsReSpace(At(s, i)) THEN re_ws(s, i + 1) ELSE i

RECURSIVE re_word(_, _)
re_word(s, i) == IF i < Len(s) /\ IsWordChar(At(s, i)) THEN re_word(s, i + 1) ELSE i
RECURSIVE re_ident(_, _)
re_ident(s, i) == IF i < Len(s) /\ IsIdentChar(At(s, i)) THEN re_ident(s, i + 1) ELSE i
RECURSIVE re_digits(_, _)
re_digits(s, i) == IF i < Len(s) /\ IsDigit(At(s, i)) THEN re_digits(s, i + 1) ELSE i

\* The least j >= i with s[j] = c, or Len(s).
RECURSIVE IndexOf(_, _, _)
IndexOf(s, c, i) == IF i >= Len(s) \/ At(s, i) = c THEN i ELSE IndexOf(s, c, i + 1)

HasNL(s, a, b) == \E k \in a..(b - 1) : At(s, k) = NL
CharIn(s, i, set) == i < Len(s) /\ At(s, i) \in set

\* The least j >= i with s[j..j+1] = "*/", or -1.
RECURSIVE block_end(_, _)
block_end(s, j) ==
    IF j + 1 >= Len(s) THEN -1
    ELSE IF At(s, j) = "*" /\ At(s, j + 1) = "/" THEN j ELSE block_end(s, j + 1)

\* "[\w]+"\s*: at i: the index after the colon, or -1.
re_key(s, i) ==
    IF ~CharIn(s, i, { Q }) THEN -1
    ELSE LET w == re_word(s, i + 1) IN
         IF w = i + 1 \/ ~CharIn(s, w, { Q }) THEN -1
         ELSE LET c == re_ws(s, w + 1) IN
              IF CharIn(s, c, { ":" }) THEN c + 1 ELSE -1

\* (\d+|"[^"]*") at i, with the literals true|false|null when lits: the
\* index after the token, or -1.
re_token(s, i, lits) ==
    IF CharIn(s, i, Digits) THEN re_digits(s, i)
    ELSE IF CharIn(s, i, { Q }) THEN
        LET q == IndexOf(s, Q, i + 1) IN IF q < Len(s) THEN q + 1 ELSE -1
    ELSE IF lits /\ StartsWithAt(s, i, <<"t", "r", "u", "e">>) THEN i + 4
    ELSE IF lits /\ StartsWithAt(s, i, <<"f", "a", "l", "s", "e">>) THEN i + 5
    ELSE IF lits /\ StartsWithAt(s, i, <<"n", "u", "l", "l">>) THEN i + 4
    ELSE -1

\* \bword\b at i
re_bounded_word(s, i, w) ==
    IF /\ StartsWithAt(s, i, w)
       /\ (i = 0 \/ ~IsWordChar(At(s, i - 1)))
       /\ (i + Len(w) = Len(s) \/ ~IsWordChar(At(s, i + Len(w))))
    THEN i + Len(w) ELSE -1

W_True  == <<"T", "r", "u", "e">>
W_False == <<"F", "a", "l", "s", "e">>
W_NULL  == <<"N", "U", "L", "L">>
W_true  == <<"t", "r", "u", "e">>
W_false == <<"f", "a", "l", "s", "e">>
W_null  == <<"n", "u", "l", "l">>

\* regex.match(s, i) for the regular expression named re: the groups of the
\* match as indices, g[1] the index after the match (-1: no match) and g[2],
\* g[3] the inner boundaries the replacement needs.
NoMatch == <<-1, -1, -1>>
re_match(re, s, i) ==
    CASE re = "RE_BLOCK_COMMENT" ->
            IF StartsWithAt(s, i, <<"/", "*">>) /\ block_end(s, i + 2) >= 0
            THEN <<block_end(s, i + 2) + 2, 0, 0>> ELSE NoMatch
      [] re = "RE_LINE_COMMENT" ->
            IF StartsWithAt(s, i, <<"/", "/">>)
            THEN <<IndexOf(s, NL, i + 2), 0, 0>> ELSE NoMatch
      [] re = "RE_UNQUOTED_KEY" ->
            \* g[2], g[3]: the identifier
            IF ~CharIn(s, i, { "{", "[", ",", NL }) THEN NoMatch
            ELSE LET a == re_ws(s, i + 1) IN
                 IF ~(a < Len(s) /\ IsIdentStart(At(s, a))) THEN NoMatch
                 ELSE LET b == re_ident(s, a)
                          c == re_ws(s, b)
                      IN  IF CharIn(s, c, { ":" }) THEN <<c + 1, a, b>> ELSE NoMatch
      [] re = "RE_TRAILING_COMMA" ->
            IF ~CharIn(s, i, { "," }) THEN NoMatch
            ELSE LET a == re_ws(s, i + 1) IN
                 IF CharIn(s, a, { "}", "]" }) THEN <<a + 1, a, 0>> ELSE NoMatch
      [] re = "RE_MISSING_COMMA_1" ->
            IF ~CharIn(s, i, { "}", "]", Q }) THEN NoMatch
            ELSE LET a == re_ws(s, i + 1) IN
                 IF CharIn(s, a, { "{", "[", Q }) THEN <<a + 1, a, 0>> ELSE NoMatch
      [] re = "RE_MISSING_COMMA_OBJ" ->
            IF ~CharIn(s, i, { "}" }) THEN NoMatch
            ELSE LET a == re_ws(s, i + 1) IN
                 IF CharIn(s, a, { "{" }) THEN <<a + 1, a, 0>> ELSE NoMatch
      [] re = "RE_TRUE" -> <<re_bounded_word(s, i, W_True), 0, 0>>
      [] re = "RE_FALSE" -> <<re_bounded_word(s, i, W_False), 0, 0>>
      [] re = "RE_NULL_UPPER" -> <<re_bounded_word(s, i, W_NULL), 0, 0>>
      [] re = "close_nl_open" ->
            \* (\}|\])\s*\n\s*(\{|\[)
            IF ~CharIn(s, i, { "}", "]" }) THEN NoMatch
            ELSE LET a == re_ws(s, i + 1) IN
                 IF HasNL(s, i + 1, a) /\ CharIn(s, a, { "{", "[" })
                 THEN <<a + 1, a, 0>> ELSE NoMatch
      [] re = "close_ws_quote" ->
            \* (\}|\])\s+(")
            IF ~CharIn(s, i, { "}", "]" }) THEN NoMatch
            ELSE LET a == re_ws(s, i + 1) IN
                 IF a > i + 1 /\ CharIn(s, a, { Q }) THEN <<a + 1, a, 0>> ELSE NoMatch
      [] re = "token_ws_key" ->
            \* (\d+|"[^"]*")\s+("[\w]+"\s*:)   g[2]: end of group 1, g[3]: start of group 2
            LET key(t, a, k) == IF a > t /\ k >= 0 THEN <<k, t, a>> ELSE NoMatch
                space(t, a) == key(t, a, re_key(s, a))
                token(t) == IF t < 0 THEN NoMatch ELSE space(t, re_ws(s, t))
            IN  token(re_token(s, i, FALSE))
      [] re = "token_nl_key" ->
            \* (\d+|"[^"]*"|true|false|null)\s*\n\s*("[\w]+"\s*:)
            LET key(t, a, k) == IF HasNL(s, t, a) /\ k >= 0 THEN <<k, t, a>> ELSE NoMatch
                space(t, a) == key(t, a, re_key(s, a))
                token(t) == IF t < 0 THEN NoMatch ELSE space(t, re_ws(s, t))
            IN  token(re_token(s, i, TRUE))
      [] re = "close_nl_key" ->
            \* (\}|\])\s*\n\s*("[\w]+"\s*:)
            IF ~CharIn(s, i, { "}", "]" }) THEN NoMatch
            ELSE LET key(a, k) ==
                         IF HasNL(s, i + 1, a) /\ k >= 0 THEN <<k, i + 1, a>> ELSE NoMatch
                     space(a) == key(a, re_key(s, a))
                 IN  space(re_ws(s, i + 1))
      [] re = "missing_value" ->
            \* "(\w+)":\s*,     g[2]: the index of the closing quote
            IF ~CharIn(s, i, { Q }) THEN NoMatch
            ELSE LET w == re_word(s, i + 1) IN
                 IF w = i + 1 \/ ~StartsWithAt(s, w, <<Q, ":">>) THEN NoMatch
                 ELSE LET a == re_ws(s, w + 2) IN
                      IF CharIn(s, a, { "," }) THEN <<a + 1, w, 0>> ELSE NoMatch
      [] re = "RE_REMOVE_QUOTE_AFTER_CONTAINER" ->
            \* ([}\]])\s*"\s*(?=,|\}|\]|$)
            IF ~CharIn(s, i, { "}", "]" }) THEN NoMatch
            ELSE LET a == re_ws(s, i + 1) IN
                 IF ~CharIn(s, a, { Q }) THEN NoMatch
                 ELSE LET b == re_ws(s, a + 1) IN
                      IF b >= Len(s) \/ At(s, b) \in { ",", "}", "]" }
                      THEN <<b, 0, 0>> ELSE NoMatch

\* m.expand(repl), or repl(m), for the match of re at i with groups g.
re_expand(re, s, i, g) ==
    CASE re \in { "RE_BLOCK_COMMENT", "RE_LINE_COMMENT" } -> <<>>
      [] re = "RE_UNQUOTED_KEY" ->
            Slice(s, i, g[2]) \o <<Q>> \o Slice(s, g[2], g[3]) \o <<Q>> \o Slice(s, g[3], g[1])
      [] re = "RE_TRAILING_COMMA" -> <<At(s, g[2])>>
      [] re \in { "RE_MISSING_COMMA_1", "RE_MISSING_COMMA_OBJ", "close_ws_quote" } ->
            <<At(s, i), ",", SP, At(s, g[2])>>
      [] re = "RE_TRUE" -> W_true
      [] re = "RE_FALSE" -> W_false
      [] re = "RE_NULL_UPPER" -> W_null
      [] re = "close_nl_open" -> <<At(s, i), ",", NL, At(s, g[2])>>
      [] re = "token_ws_key" -> Slice(s, i, g[2]) \o <<",", SP>> \o Slice(s, g[3], g[1])
      [] re \in { "token_nl_key", "close_nl_key" } ->
            Slice(s, i, g[2]) \o <<",", NL>> \o Slice(s, g[3], g[1])
      [] re = "missing_value" ->
            Slice(s, i, g[2]) \o <<Q, ":", SP>> \o W_null \o <<",">>
      [] re = "RE_REMOVE_QUOTE_AFTER_CONTAINER" -> <<At(s, i)>>

\* The loop of _sub_outside_strings over regex.finditer(s): i is where the
\* next match is searched, last and out as in the source.
RECURSIVE sub_from(_, _, _, _, _, _)
sub_from(s, re, ranges, i, last, out) ==
    IF i >= Len(s) THEN out \o Slice(s, last, Len(s))
    ELSE LET matched(g) ==
                 IF g[1] < 0 THEN sub_from(s, re, ranges, i + 1, last, out)
                 ELSE IF index_in_ranges(i, ranges)
                 THEN sub_from(s, re, ranges, g[1], last, out)
                 ELSE sub_from(s, re, ranges, g[1], g[1],
                               out \o Slice(s, last, i) \o re_expand(re, s, i, g))
         IN  matched(re_match(re, s, i))

sub_outside_strings(s, re) == sub_from(s, re, compute_string_ranges(s), 0, 0, <<>>)

strip_comments(s) ==
    sub_outside_strings(sub_outside_strings(s, "RE_BLOCK_COMMENT"), "RE_LINE_COMMENT")

normalize_literals(s) ==
    sub_outside_strings(
        sub_outside_strings(sub_outside_strings(s, "RE_TRUE"), "RE_FALSE"),
        "RE_NULL_UPPER")

\* The for loop of quote_unquoted_keys with n iterations left.
RECURSIVE quote_keys_loop(_, _)
quote_keys_loop(s, n) ==
    IF n = 0 THEN s
    ELSE LET again(new_s) == IF new_s = s THEN s ELSE quote_keys_loop(new_s, n - 1)
         IN  again(sub_outside_strings(s, "RE_UNQUOTED_KEY"))

max_iterations == 10
quote_unquoted_keys(s) == quote_keys_loop(s, max_iterations)

escape_special_characters(s) == s

\* The while loop of remove_trailing_commas.
RECURSIVE remove_trailing_commas(_)
remove_trailing_commas(s) ==
    LET again(s2) == IF s2 = s THEN s ELSE remove_trailing_commas(s2)
    IN  again(sub_outside_strings(s, "RE_TRAILING_COMMA"))

\* An iteration that inserts commas before keys only.
commas_before_keys_only(s) ==
    LET s5 == sub_outside_strings(s, "token_ws_key")
        s6 == sub_outside_strings(s5, "token_nl_key")
    IN  sub_outside_strings(s6, "close_nl_key")
\* One iteration of the loop of insert_missing_commas.
insert_commas_once(s) ==
    LET s1 == sub_outside_strings(s, "RE_MISSING_COMMA_OBJ")
        s2 == sub_outside_strings(s1, "RE_MISSING_COMMA_1")
        s3 == sub_outside_strings(s2, "close_nl_open")
        s4 == sub_outside_strings(s3, "close_ws_quote")
        s5 == sub_outside_strings(s4, "token_ws_key")
        s6 == sub_outside_strings(s5, "token_nl_key")
    IN  sub_outside_strings(s6, "close_nl_key")

RECURSIVE insert_commas_loop(_, _)
insert_commas_loop(s, n) ==
    IF n = 0 THEN s
    ELSE LET again(s2) == IF s2 = s THEN s ELSE insert_commas_loop(s2, n - 1)
         IN  again(insert_commas_once(s))

insert_missing_commas(s) == insert_commas_loop(s, max_iterations)

\* A text that does not parse is replaced by the empty text.
drop_unparsed_text(s) ==
    LET dumped(r) == IF r.ok THEN json_dumps(r.val, -1, 0) ELSE <<>>
    IN  dumped(json_loads(s))
remove_duplicate_keys(s) ==
    LET dumped(r) == IF r.ok THEN json_dumps(r.val, -1, 0) ELSE s
    IN  dumped(json_loads(s))

fix_missing_values(s) == sub_outside_strings(s, "missing_value")

(***************************************************************************)
(* The transforms that report diagnostics.  A diagnostic is the message    *)
(* template of the source, the numbers formatted into it and the text      *)
(* formatted into it.                                                      *)
(***************************************************************************)
Diag(msg, args, txt) == [msg |-> msg, args |-> args, txt |-> txt]
\* What a transform returns: (text, diagnostics).
Ret(s, diags) == [s |-> s, diags |-> diags]

PyWS == WS4 \cup { "\f" }
RECURSIVE lstrip(_)
lstrip(s) == IF s # <<>> /\ Head(s) \in PyWS THEN lstrip(Tail(s)) ELSE s
RECURSIVE rstrip(_)
rstrip(s) ==
    IF s # <<>> /\ s[Len(s)] \in PyWS THEN rstrip(SubSeq(s, 1, Len(s) - 1)) ELSE s
strip(s) == lstrip(rstrip(s))

\* RE_BARE_KV_SNIPPET.search(t):  ^\s*"\s*[^"]+\s*"\s*:\s*
bare_kv_snippet(t) ==
    LET a == re_ws(t, 0) IN
    /\ CharIn(t, a, { Q })
    /\ LET q == IndexOf(t, Q, a + 1) IN
       /\ q < Len(t)
       /\ q > a + 1
       /\ CharIn(t, re_ws(t, q + 1), { ":" })

\* The text is wrapped whatever follows its first character.
wrap_any_snippet(s) ==
    IF lstrip(s) = <<>> \/ Head(lstrip(s)) \in { "{", "[" } THEN Ret(s, <<>>)
    ELSE Ret(<<"{", NL>> \o s \o <<NL, "}">>,
             <<Diag("wrapped bare key/value snippet with surrounding '{ }'", <<>>, <<>>)>>)
\* The text is never wrapped.
wrap_no_snippet(s) == Ret(s, <<>>)
wrap_bare_kv_snippet(s) ==
    LET t == lstrip(s) IN
    IF t = <<>> THEN Ret(s, <<>>)
    ELSE IF t[1] \notin { "{", "[" } /\ bare_kv_snippet(t)
    THEN Ret(<<"{", NL>> \o s \o <<NL, "}">>,
             <<Diag("wrapped bare key/value snippet with surrounding '{ }'", <<>>, <<>>)>>)
    ELSE Ret(s, <<>>)

\* "([^"]+)"\s*:\s*" at i: <<index after the match, index of the key's
\* closing quote>>, or NoMatch.
key_open_quote(s, i) ==
    IF ~CharIn(s, i, { Q }) THEN NoMatch
    ELSE LET q == IndexOf(s, Q, i + 1) IN
         IF q >= Len(s) \/ q = i + 1 THEN NoMatch
         ELSE LET a == re_ws(s, q + 1) IN
              IF ~CharIn(s, a, { ":" }) THEN NoMatch
              ELSE LET b == re_ws(s, a + 1) IN
                   IF CharIn(s, b, { Q }) THEN <<b + 1, q, 0>> ELSE NoMatch

RECURSIVE skip_blank(_, _)
skip_blank(s, j) == IF j < Len(s) /\ At(s, j) \in WS4 THEN skip_blank(s, j + 1) ELSE j

\* The loop of promote_stringified_json_values over re.finditer: found tells
\* whether out is non-empty.
RECURSIVE promote_from(_, _, _, _, _, _)
promote_from(s, i, last, out, diags, found) ==
    IF i >= Len(s) THEN [s |-> out \o Slice(s, last, Len(s)), diags |-> diags, found |-> found]
    ELSE LET g == key_open_quote(s, i) IN
         IF g[1] < 0 THEN promote_from(s, i + 1, last, out, diags, found)
         ELSE LET open_quote_pos == g[1] - 1
                  brace_pos == g[1]
                  j == skip_blank(s, brace_pos + 1)
              IN  IF /\ brace_pos < Len(s)
                     /\ At(s, brace_pos) \in { "{", "[" }
                     /\ j < Len(s) /\ At(s, j) = Q
                  THEN promote_from(s, g[1], open_quote_pos + 1,
                           out \o Slice(s, last, open_quote_pos),
                           Append(diags,
                               Diag("promoted stringified JSON value for key '%s' to real container",
                                    <<>>, Slice(s, i + 1, g[2]))),
                           TRUE)
                  ELSE promote_from(s, g[1], last, out, diags, found)

promote_stringified_json_values(s) ==
    LET promoted(r) ==
            IF ~r.found THEN Ret(s, r.diags)
            ELSE Ret(sub_outside_strings(r.s, "RE_REMOVE_QUOTE_AFTER_CONTAINER"), r.diags)
    IN  promoted(promote_from(s, 0, 0, <<>>, <<>>, FALSE))

is_num_char(ch) == IsDigit(ch) \/ ch \in { ".", "+", "-", "e", "E" }

RECURSIVE back_over_blank(_, _)
back_over_blank(s, k) == IF k >= 0 /\ At(s, k) \in WS4 THEN back_over_blank(s, k - 1) ELSE k
RECURSIVE num_token_start(_, _)
num_token_start(s, start) ==
    IF start - 1 >= 0 /\ is_num_char(At(s, start - 1)) THEN num_token_start(s, start - 1)
    ELSE start

\* Whether the quote at i of chars is a stray quote after a number token.
is_stray_quote(chars, i) ==
    LET k == back_over_blank(chars, i - 1) IN
    /\ k >= 0 /\ is_num_char(At(chars, k))
    /\ LET prev == back_over_blank(chars, num_token_start(chars, k) - 1) IN
       prev < 0 \/ At(chars, prev) # Q
    /\ CharIn(chars, skip_blank(chars, i + 1), { ",", "]", "}" })

RemoveAt(chars, i) == Slice(chars, 0, i) \o Slice(chars, i + 1, Len(chars))

\* The while loop of remove_stray_quote_after_number_token.
RECURSIVE stray_quote_loop(_, _, _, _, _)
stray_quote_loop(chars, i, in_string, escape_next, removed) ==
    IF i >= Len(chars) THEN [s |-> chars, removed |-> removed]
    ELSE LET ch == At(chars, i) IN
         IF escape_next THEN stray_quote_loop(chars, i + 1, in_string, FALSE, removed)
         ELSE IF ch = BS THEN stray_quote_loop(chars, i + 1, in_string, TRUE, removed)
         ELSE IF ch = Q THEN
             IF ~in_string THEN
                 IF is_stray_quote(chars, i)
                 THEN stray_quote_loop(RemoveAt(chars, i), i, in_string, FALSE, removed + 1)
                 ELSE stray_quote_loop(chars, i + 1, TRUE, FALSE, removed)
             ELSE stray_quote_loop(chars, i + 1, FALSE, FALSE, removed)
         ELSE stray_quote_loop(chars, i + 1, in_string, FALSE, removed)

remove_stray_quote_after_number_token(s) ==
    LET r == stray_quote_loop(s, 0, FALSE, FALSE, 0) IN
    Ret(r.s, IF r.removed > 0
             THEN <<Diag("removed %d stray quote(s) after number token", <<r.removed>>, <<>>)>>
             ELSE <<>>)

\* The for loop of fix_unclosed_strings_global.
RECURSIVE unclosed_loop(_, _, _, _, _, _)
unclosed_loop(s, i, in_string, escape_next, out_chars, diags) ==
    IF i >= Len(s)
    THEN [out |-> out_chars, diags |-> diags, in_string |-> in_string,
          escape_next |-> escape_next]
    ELSE LET ch == At(s, i) IN
         IF escape_next
         THEN unclosed_loop(s, i + 1, in_string, FALSE, Append(out_chars, ch), diags)
         ELSE IF ch = BS
         THEN unclosed_loop(s, i + 1, in_string, TRUE, Append(out_chars, ch), diags)
         ELSE IF ch = Q
         THEN unclosed_loop(s, i + 1, ~in_string, FALSE, Append(out_chars, ch), diags)
         ELSE IF in_string /\ ch = NL
         THEN unclosed_loop(s, i + 1, in_string, FALSE, out_chars \o <<BS, "n">>,
                  Append(diags, Diag("escaped raw newline inside string as '\\n'", <<>>, <<>>)))
         ELSE unclosed_loop(s, i + 1, in_string, FALSE, Append(out_chars, ch), diags)

\* The backslash the text ends on is kept.
keep_dangling_backslash(s) ==
    LET closed(r) ==
            IF r.in_string
            THEN Ret(Append(r.out, Q),
                     Append(r.diags, Diag("appended missing '\"' at end (unterminated string)",
                                          <<>>, <<>>)))
            ELSE Ret(r.out, r.diags)
    IN  closed(unclosed_loop(s, 0, FALSE, FALSE, <<>>, <<>>))
fix_unclosed_strings_global(s) ==
    LET r == unclosed_loop(s, 0, FALSE, FALSE, <<>>, <<>>)
        popped == r.escape_next /\ r.out # <<>> /\ r.out[Len(r.out)] = BS
        o1 == IF popped THEN SubSeq(r.out, 1, Len(r.out) - 1) ELSE r.out
        d1 == IF popped
              THEN Append(r.diags, Diag("removed dangling backslash at end of text", <<>>, <<>>))
              ELSE r.diags
    IN  IF r.in_string
        THEN Ret(Append(o1, Q),
                 Append(d1, Diag("appended missing '\"' at end (unterminated string)", <<>>, <<>>)))
        ELSE Ret(o1, d1)

\* The for loop of truncate_after_last_container_close: the value of last_close.
RECURSIVE last_close_from(_, _, _, _, _)
last_close_from(s, i, in_string, escape_next, last_close) ==
    IF i >= Len(s) THEN last_close
    ELSE LET ch == At(s, i) IN
         IF escape_next THEN last_close_from(s, i + 1, in_string, FALSE, last_close)
         ELSE IF ch = BS THEN last_close_from(s, i + 1, in_string, TRUE, last_close)
         ELSE IF ch = Q THEN last_close_from(s, i + 1, ~in_string, FALSE, last_close)
         ELSE IF ~in_string /\ ch \in { "}", "]" }
         THEN last_close_from(s, i + 1, in_string, FALSE, i)
         ELSE last_close_from(s, i + 1, in_string, FALSE, last_close)

truncate_after_last_container_close(s) ==
    LET last_close == last_close_from(s, 0, FALSE, FALSE, -1) IN
    IF /\ last_close >= 0 /\ last_close < Len(s) - 1
       /\ strip(Slice(s, last_close + 1, Len(s))) # <<>>
    THEN Ret(Slice(s, 0, last_close + 1),
             <<Diag("truncated trailing garbage after last '}'/']'", <<>>, <<>>)>>)
    ELSE Ret(s, <<>>)

\* The text is cut at every error position, the first and the last included.
truncate_at_any_position(s, error_msg) ==
    LET r2 == truncate_after_last_container_close(Slice(s, 0, error_msg.pos)) IN
    IF r2.s # s
    THEN Ret(r2.s, Append(r2.diags,
             Diag("truncated text around JSON parse error position", <<>>, <<>>)))
    ELSE Ret(s, <<>>)
\* The character at the error position is dropped and the rest kept.
drop_error_character(s, error_msg) ==
    IF error_msg.pos >= Len(s) THEN Ret(s, <<>>)
    ELSE Ret(Slice(s, 0, error_msg.pos) \o Slice(s, error_msg.pos + 1, Len(s)),
             <<Diag("truncated text around JSON parse error position", <<>>, <<>>)>>)
\* error_msg is the error try_parse_json returned; every message of the
\* strict parser carries its position as "(char N)".
truncate_around_error_position(s, error_msg) ==
    LET pos == error_msg.pos IN
    IF pos <= 0 \/ pos >= Len(s) THEN Ret(s, <<>>)
    ELSE LET prefix == Slice(s, 0, pos)
             r2 == truncate_after_last_container_close(prefix)
             d == IF r2.s # prefix THEN r2.diags ELSE <<>>
         IN  IF r2.s # s
             THEN Ret(r2.s, Append(d,
                      Diag("truncated text around JSON parse error position", <<>>, <<>>)))
             ELSE Ret(s, d)

\* strip_strings of balance_brackets_smart and clean_extra_brackets.
RECURSIVE strip_strings_from(_, _, _, _, _)
strip_strings_from(text, i, in_string, escape_next, result) ==
    IF i >= Len(text) THEN result
    ELSE LET char == At(text, i) IN
         IF escape_next
         THEN strip_strings_from(text, i + 1, in_string, FALSE, Append(result, SP))
         ELSE IF char = BS
         THEN strip_strings_from(text, i + 1, in_string, TRUE, Append(result, SP))
         ELSE IF char = Q
         THEN strip_strings_from(text, i + 1, ~in_string, FALSE, Append(result, Q))
         ELSE IF ~in_string
         THEN strip_strings_from(text, i + 1, in_string, FALSE, Append(result, char))
         ELSE strip_strings_from(text, i + 1, in_string, FALSE, Append(result, SP))

strip_strings(text) == strip_strings_from(text, 0, FALSE, FALSE, <<>>)

\* The stack of open brackets after walking stripped from i.
RECURSIVE bracket_stack(_, _, _)
bracket_stack(stripped, i, stack) ==
    IF i >= Len(stripped) THEN stack
    ELSE LET char == At(stripped, i) IN
         IF char \in { "{", "[" } THEN bracket_stack(stripped, i + 1, Append(stack, char))
         ELSE IF char \in { "}", "]" } THEN
             LET expected == IF char = "}" THEN "{" ELSE "[" IN
             IF stack # <<>> /\ stack[Len(stack)] = expected
             THEN bracket_stack(stripped, i + 1, SubSeq(stack, 1, Len(stack) - 1))
             ELSE bracket_stack(stripped, i + 1, stack)
         ELSE bracket_stack(stripped, i + 1, stack)

\* The closing brackets of the stack, innermost first.
RECURSIVE closing_of(_)
closing_of(stack) ==
    IF stack = <<>> THEN <<>>
    ELSE <<IF stack[Len(stack)] = "{" THEN "}" ELSE "]">>
         \o closing_of(SubSeq(stack, 1, Len(stack) - 1))

balance_brackets_smart(s) ==
    LET stack == bracket_stack(strip_strings(s), 0, <<>>) IN
    IF stack # <<>>
    THEN Ret(s \o closing_of(stack),
             <<Diag("Appended %d missing brackets: %s", <<Len(stack)>>, closing_of(stack))>>)
    ELSE Ret(s, <<>>)

\* "([^"\\]|\\.)*" at i: the index after the match, or -1.
RECURSIVE quoted_end(_, _)
quoted_end(s, j) ==
    IF j >= Len(s) THEN -1
    ELSE IF At(s, j) = Q THEN j + 1
    ELSE IF At(s, j) # BS THEN quoted_end(s, j + 1)
    ELSE IF j + 1 < Len(s) /\ At(s, j + 1) # NL THEN quoted_end(s, j + 2)
    ELSE -1

\* _strip_strings of balance_brackets: re.sub of the quoted strings by "".
RECURSIVE sub_quoted(_, _)
sub_quoted(s, i) ==
    IF i >= Len(s) THEN <<>>
    ELSE IF At(s, i) = Q /\ quoted_end(s, i + 1) >= 0
    THEN <<Q, Q>> \o sub_quoted(s, quoted_end(s, i + 1))
    ELSE <<At(s, i)>> \o sub_quoted(s, i + 1)

Count(s, c) == Cardinality({ k \in 1..Len(s) : s[k] = c })
RECURSIVE Repeat(_, _)
Repeat(c, n) == IF n <= 0 THEN <<>> ELSE <<c>> \o Repeat(c, n - 1)

\* balance_brackets whose counting fallback counts the brackets of the text
\* as it is, those inside string literals included.
count_all_brackets(s) ==
    LET r1 == balance_brackets_smart(s) IN
    IF r1.s = s
    THEN LET need_curly == Count(s, "{") - Count(s, "}")
             need_square == Count(s, "[") - Count(s, "]")
         IN  Ret(s \o Repeat("]", need_square) \o Repeat("}", need_curly), <<>>)
    ELSE r1

balance_brackets(s) ==
    LET r1 == balance_brackets_smart(s) IN
    IF r1.s = s
    THEN LET t == sub_quoted(s, 0)
             need_curly == Count(t, "{") - Count(t, "}")
             need_square == Count(t, "[") - Count(t, "]")
             d1 == IF need_square > 0
                   THEN <<Diag("Appended %d missing ']' at end", <<need_square>>, <<>>)>>
                   ELSE <<>>
             d2 == IF need_curly > 0
                   THEN <<Diag("Appended %d missing '}' at end", <<need_curly>>, <<>>)>>
                   ELSE <<>>
         IN  Ret(s \o Repeat("]", need_square) \o Repeat("}", need_curly), d1 \o d2)
    ELSE r1

(***************************************************************************)
(* The line-oriented transforms.                                           *)
(***************************************************************************)

\* s.split('\n')
RECURSIVE split_lines(_, _, _)
split_lines(s, i, cur) ==
    IF i >= Len(s) THEN <<cur>>
    ELSE IF At(s, i) = NL THEN <<cur>> \o split_lines(s, i + 1, <<>>)
    ELSE split_lines(s, i + 1, Append(cur, At(s, i)))
split(s) == split_lines(s, 0, <<>>)

\* '\n'.join(lines)
RECURSIVE join(_)
join(lines) ==
    IF lines = <<>> THEN <<>>
    ELSE IF Len(lines) = 1 THEN lines[1]
    ELSE lines[1] \o <<NL>> \o join(Tail(lines))

Contains(s, c) == \E k \in 1..Len(s) : s[k] = c

\* The counting loop of fix_misplaced_brackets: <<open_obj, open_arr>>.
RECURSIVE open_counts(_, _, _, _, _, _)
open_counts(s, i, in_string, escape, open_obj, open_arr) ==
    IF i >= Len(s) THEN <<open_obj, open_arr>>
    ELSE LET char == At(s, i) IN
         IF escape THEN open_counts(s, i + 1, in_string, FALSE, open_obj, open_arr)
         ELSE IF char = BS THEN open_counts(s, i + 1, in_string, TRUE, open_obj, open_arr)
         ELSE IF char = Q THEN open_counts(s, i + 1, ~in_string, FALSE, open_obj, open_arr)
         ELSE IF in_string THEN open_counts(s, i + 1, in_string, FALSE, open_obj, open_arr)
         ELSE open_counts(s, i + 1, in_string, FALSE,
                  open_obj + (IF char = "{" THEN 1 ELSE IF char = "}" THEN -1 ELSE 0),
                  open_arr + (IF char = "[" THEN 1 ELSE IF char = "]" THEN -1 ELSE 0))

\* Whether line i (from 1) of lines is where fix_misplaced_brackets inserts.
misplaced_at(lines, i) ==
    LET line == lines[i]
        stripped == rstrip(line)
    IN  /\ EndsWith(stripped, <<"]">>) /\ ~EndsWith(stripped, <<"]", "]">>)
        /\ LET before_bracket == rstrip(SubSeq(stripped, 1, Len(stripped) - 1)) IN
           /\ before_bracket # <<>>
           /\ IF IsDigit(before_bracket[Len(before_bracket)])
              THEN ~Contains(stripped, "[") /\ ~Contains(stripped, ",")
              ELSE \/ EndsWith(before_bracket, <<Q>>)
                   \/ EndsWith(before_bracket, <<"}">>)
                   \/ EndsWith(before_bracket, W_true)
                   \/ EndsWith(before_bracket, W_false)
                   \/ EndsWith(before_bracket, W_null)
           /\ LET content_before == join(SubSeq(lines, 1, i - 1)) \o <<NL>> \o before_bracket
                  c == open_counts(content_before, 0, FALSE, FALSE, 0, 0)
              IN  c[1] > 0 /\ c[2] > 0

fix_misplaced_brackets(s) ==
    LET lines == split(s) IN
    IF \E i \in 1..Len(lines) : misplaced_at(lines, i)
    THEN LET i == CHOOSE i \in 1..Len(lines) :
                      /\ misplaced_at(lines, i)
                      /\ \A k \in 1..(i - 1) : ~misplaced_at(lines, k)
             line == lines[i]
             stripped == rstrip(line)
             before_bracket == rstrip(SubSeq(stripped, 1, Len(stripped) - 1))
             indent == Len(line) - Len(lstrip(line))
             new_line == before_bracket \o <<NL>> \o Spaces(indent) \o <<"}", NL>>
                         \o Spaces(indent - 4) \o <<"]">>
         IN  Ret(join([lines EXCEPT ![i] = new_line]),
                 <<Diag("Inserted '}' before ']' on line %d", <<i>>, <<>>)>>)
    ELSE Ret(s, <<>>)

balanced(s) == bracket_stack(strip_strings(s), 0, <<>>) = <<>>

\* The while loop of clean_extra_brackets; s is returned when it gives up.
RECURSIVE clean_loop(_, _)
clean_loop(s, s_stripped) ==
    IF s_stripped # <<>> /\ s_stripped[Len(s_stripped)] \in { "}", "]" }
    THEN LET test_s == SubSeq(s_stripped, 1, Len(s_stripped) - 1) IN
         IF balanced(test_s)
         THEN IF json_loads(test_s).ok THEN test_s ELSE clean_loop(s, rstrip(test_s))
         ELSE s
    ELSE s

clean_extra_brackets(s) ==
    IF balanced(s)
    THEN IF json_loads(s).ok THEN s ELSE clean_loop(s, rstrip(s))
    ELSE s

\* analyze_brackets of smart_insert_brackets_by_error.
RECURSIVE analyze_brackets(_, _, _, _, _)
analyze_brackets(text, i, in_string, escape_next, stack) ==
    IF i >= Len(text) THEN stack
    ELSE LET char == At(text, i) IN
         IF escape_next THEN analyze_brackets(text, i + 1, in_string, FALSE, stack)
         ELSE IF char = BS THEN analyze_brackets(text, i + 1, in_string, TRUE, stack)
         ELSE IF char = Q THEN analyze_brackets(text, i + 1, ~in_string, FALSE, stack)
         ELSE IF in_string THEN analyze_brackets(text, i + 1, in_string, FALSE, stack)
         ELSE IF char \in { "{", "[" }
         THEN analyze_brackets(text, i + 1, in_string, FALSE, Append(stack, char))
         ELSE IF /\ char \in { "}", "]" } /\ stack # <<>>
                 /\ stack[Len(stack)] = (IF char = "}" THEN "{" ELSE "[")
         THEN analyze_brackets(text, i + 1, in_string, FALSE, SubSeq(stack, 1, Len(stack) - 1))
         ELSE analyze_brackets(text, i + 1, in_string, FALSE, stack)

\* re.search(r'[,\}]\s+"[\w]+"\s*:', text)
comma_then_key(text) ==
    \E i \in 0..(Len(text) - 1) :
        /\ At(text, i) \in { ",", "}" }
        /\ re_ws(text, i + 1) > i + 1
        /\ re_key(text, re_ws(text, i + 1)) >= 0

\* The greatest index of c in s, or -1.
RECURSIVE rindex(_, _, _)
rindex(s, c, i) == IF i < 0 THEN -1 ELSE IF At(s, i) = c THEN i ELSE rindex(s, c, i - 1)

ends_with_close(line) == EndsWith(line, <<"}">>) \/ EndsWith(line, <<"]">>)

\* The insertion is tried whatever the message of the error is.
insert_on_any_error(s, error_msg) ==
    LET error_line == error_msg.line
        lines == split(s)
    IN
    IF error_line > Len(lines) THEN Ret(s, <<>>)
    ELSE
    LET content_before == join(SubSeq(lines, 1, error_line))
        unclosed == analyze_brackets(content_before, 0, FALSE, FALSE, <<>>)
        idx == error_line
        error_line_text == strip(lines[idx])
        comma == rindex(error_line_text, ",", Len(error_line_text) - 1)
    IN
    IF comma_then_key(error_line_text) /\ comma >= 0
    THEN LET left_part == Slice(error_line_text, 0, comma)
             right_part == Slice(error_line_text, comma + 1, Len(error_line_text))
             lead == Len(lines[idx]) - Len(lstrip(lines[idx]))
             new_line == Slice(lines[idx], 0, lead)
                         \o left_part \o <<NL, SP, SP, SP, SP, "]", ",", SP>> \o strip(right_part)
                         \o Slice(lines[idx], lead + Len(error_line_text), Len(lines[idx]))
         IN  Ret(clean_extra_brackets(join([lines EXCEPT ![idx] = new_line])),
                 <<Diag("Split line %d and inserted ']'", <<idx>>, <<>>)>>)
    ELSE IF Contains(unclosed, "[")
    THEN IF \E i \in 1..(idx - 1) : ends_with_close(strip(lines[i]))
         THEN LET i == CHOOSE i \in 1..(idx - 1) :
                           /\ ends_with_close(strip(lines[i]))
                           /\ \A k \in (i + 1)..(idx - 1) : ~ends_with_close(strip(lines[k]))
              IN  Ret(clean_extra_brackets(
                          join([lines EXCEPT ![i] = Append(rstrip(lines[i]), "]")])),
                      <<Diag("Inserted ']' after line %d to close array", <<i>>, <<>>)>>)
         ELSE Ret(s, <<>>)
    ELSE IF idx > 1
    THEN LET prev_line == rstrip(lines[idx - 1]) IN
         IF /\ ends_with_close(prev_line)
            /\ error_line_text # <<>> /\ error_line_text[1] \in { Q, "{" }
         THEN Ret(join([lines EXCEPT ![idx - 1] = Append(prev_line, ",")]),
                  <<Diag("Inserted ',' after line %d", <<idx - 1>>, <<>>)>>)
         ELSE Ret(s, <<>>)
    ELSE Ret(s, <<>>)

\* error_msg is the error try_parse_json returned: its kind is the message
\* before ": line L column C (char N)".
smart_insert_brackets_by_error(s, error_msg) ==
    LET error_line == error_msg.line
        lines == split(s)
    IN
    IF error_line > Len(lines) THEN Ret(s, <<>>)
    ELSE
    LET content_before == join(SubSeq(lines, 1, error_line))
        unclosed == analyze_brackets(content_before, 0, FALSE, FALSE, <<>>)
        idx == error_line
        error_line_text == strip(lines[idx])
        comma == rindex(error_line_text, ",", Len(error_line_text) - 1)
    IN
    IF error_msg.kind # "Expecting ',' delimiter" THEN Ret(s, <<>>)
    ELSE IF comma_then_key(error_line_text) /\ comma >= 0
    THEN LET left_part == Slice(error_line_text, 0, comma)
             right_part == Slice(error_line_text, comma + 1, Len(error_line_text))
             lead == Len(lines[idx]) - Len(lstrip(lines[idx]))
             new_line == Slice(lines[idx], 0, lead)
                         \o left_part \o <<NL, SP, SP, SP, SP, "]", ",", SP>> \o strip(right_part)
                         \o Slice(lines[idx], lead + Len(error_line_text), Len(lines[idx]))
         IN  Ret(clean_extra_brackets(join([lines EXCEPT ![idx] = new_line])),
                 <<Diag("Split line %d and inserted ']'", <<idx>>, <<>>)>>)
    ELSE IF Contains(unclosed, "[")
    THEN IF \E i \in 1..(idx - 1) : ends_with_close(strip(lines[i]))
         THEN LET i == CHOOSE i \in 1..(idx - 1) :
                           /\ ends_with_close(strip(lines[i]))
                           /\ \A k \in (i + 1)..(idx - 1) : ~ends_with_close(strip(lines[k]))
              IN  Ret(clean_extra_brackets(
                          join([lines EXCEPT ![i] = Append(rstrip(lines[i]), "]")])),
                      <<Diag("Inserted ']' after line %d to close array", <<i>>, <<>>)>>)
         ELSE Ret(s, <<>>)
    ELSE IF idx > 1
    THEN LET prev_line == rstrip(lines[idx - 1]) IN
         IF /\ ends_with_close(prev_line)
            /\ error_line_text # <<>> /\ error_line_text[1] \in { Q, "{" }
         THEN Ret(join([lines EXCEPT ![idx - 1] = Append(prev_line, ",")]),
                  <<Diag("Inserted ',' after line %d", <<idx - 1>>, <<>>)>>)
         ELSE Ret(s, <<>>)
    ELSE Ret(s, <<>>)

(***************************************************************************)
(* The driver, repair_jsonish, one action per statement of its body.       *)
(***************************************************************************)

\* The greatest max_passes of a direct call of repair_jsonish.
MaxPassesBound == 1
\* max_passes of repair_jsonish when the caller gives none, as
\* JSONRepairTool.repair does.
DefaultMaxPasses == 6
\* The exhaustive part of the inputs: every text of at most MaxLen
\* characters of each of the alphabets below.
MaxLen == 3
SmallAlphabet == { "{", "}", "[", "]", Q, ":", "1" }
WordAlphabet == { "n", "u", "l", "N", "a" }
CommentAlphabet == { Q, "/", "*", NL }

Curated ==
    { <<>>, <<SP>>, <<NL>>, <<SP, NL, SP>>, <<CR, NL>>,
      \* bare words
      <<"a", "l", "l", "n">>, <<"n", "u", "l">>, <<"n", "u", "l", "l">>,
      <<"n", "u", "l", "l", "l">>, <<"N", "U", "L", "L">>, <<"N", "U", "L", "L", "x">>,
      <<"N", "a", "N">>, <<"N", "a", "N", "a">>, <<"x">>, <<SP, "x", "a">>,
      <<"h", "e", "l", "l", "o">>, <<"T", "r", "u", "e">>, <<"t", "r", "u", "e", "x">>,
      <<"I", "n", "f", "i", "n", "i", "t", "y">>,
      \* {    and   [1,   and  {"a":1
      <<"{", SP>>, <<"[", "1", ",">>, <<"{", Q, "a", Q, ":", "1">>,
      \* "\":"   a string, and a bare key to the wrapper
      <<Q, BS, Q, ":", Q>>,
      \* {"a":"["}  and  {"a":"{"}
      <<"{", Q, "a", Q, ":", Q, "[", Q, "}">>,
      <<"{", Q, "a", Q, ":", Q, "{", Q, "}">>,
      \* {"a":"//"}  and  ["/*a*/"]
      <<"{", Q, "a", Q, ":", Q, "/", "/", Q, "}">>,
      <<"[", Q, "/", "*", "a", "*", "/", Q, "]">>,
      \* [1 // a      and   [/* a */1]   and  /*"*/"//"
      <<"[", "1", SP, "/", "/", SP, "a">>,
      <<"[", "/", "*", "a", "*", "/", "1", "]">>,
      <<"/", "*", Q, "*", "/", Q, "/", "/", Q>>,
      \* {"a":1,"a":11}
      <<"{", Q, "a", Q, ":", "1", ",", Q, "a", Q, ":", "1", "1", "}">>,
      \* {a:NULL,}   and   [NULL,"NULL"]
      <<"{", "a", ":", "N", "U", "L", "L", ",", "}">>,
      <<"[", "N", "U", "L", "L", ",", Q, "N", "U", "L", "L", Q, "]">>,
      \* {"a":[{"x":1} {"x":1}]}
      <<"{", Q, "a", Q, ":", "[", "{", Q, "x", Q, ":", "1", "}", SP,
        "{", Q, "x", Q, ":", "1", "}", "]", "}">>,
      \* { "a": [ {"x":1} {"x":2} ] }
      <<"{", SP, Q, "a", Q, ":", SP, "[", SP, "{", Q, "x", Q, ":", "1", "}", SP,
        "{", Q, "x", Q, ":", "2", "}", SP, "]", SP, "}">>,
      \* {"a":"{"x":1}"}
      <<"{", Q, "a", Q, ":", Q, "{", Q, "x", Q, ":", "1", "}", Q, "}">>,
      \* {"a":[1",1]}
      <<"{", Q, "a", Q, ":", "[", "1", Q, ",", "1", "]", "}">>,
      \* {"a":, "x":1}
      <<"{", Q, "a", Q, ":", ",", SP, Q, "x", Q, ":", "1", "}">>,
      \* {"a":[{"x":1\n"l":1]}      the misplaced bracket
      <<"{", Q, "a", Q, ":", "[", "{", Q, "x", Q, ":", "1", NL,
        Q, "l", Q, ":", "1", "]", "}">>,
      \* {"a":[1\n, "x":1}      the array closed by the error-guided insertion
      <<"{", Q, "a", Q, ":", "[", "1", NL, ",", SP, Q, "x", Q, ":", "1", "}">>,
      \* [{"a":1}\n,"x":1]
      <<"[", "{", Q, "a", Q, ":", "1", "}", NL, ",", Q, "x", Q, ":", "1", "]">>,
      \* [{}\n,{"x" 1}\n]      a missing colon after an array left open
      <<"[", "{", "}", NL, ",", "{", Q, "x", Q, SP, "1", "}", NL, "]">>,
      \* {"a":[{}\n"x" 1}
      <<"{", Q, "a", Q, ":", "[", "{", "}", NL, Q, "x", Q, SP, "1", "}">>,
      \* {"a":1}x    and   {"a":1,"x
      <<"{", Q, "a", Q, ":", "1", "}", "x">>,
      <<"{", Q, "a", Q, ":", "1", ",", Q, "x">>,
      \* }{"a":1}  and  ]x  and  \n}[
      <<"}", "{", Q, "a", Q, ":", "1", "}">>, <<"]", "x">>, <<NL, "}", "[">>,
      \* ["a\nx"]   and   ["a\     and   ["a\ followed by a newline and "]
      <<"[", Q, "a", NL, "x", Q, "]">>, <<"[", Q, "a", BS>>,
      <<"[", Q, "a", BS, NL, Q, "]">>,
      \* ["\"","x      an escaped quote in a string and an unterminated string
      <<"[", Q, BS, Q, Q, ",", Q, "x">>,
      \* {\      an open bracket and a backslash outside every string
      <<"{", BS>>,
      \* ["ᨚ", "\n"]
      <<"[", Q, BS, "u", "1", "a", "1", "a", Q, ",", SP, Q, BS, "n", Q, "]">> }

BareKV(k, v) == <<Q>> \o k \o <<Q, ":", SP, Q>> \o v \o <<Q>>
KVAlphabet == { "a", "1", "{", "[", SP, NL, TAB, ":" }
KVParts == { <<>> } \cup { <<c>> : c \in KVAlphabet }
           \cup { <<c, d>> : c \in { "a", "{", "[" }, d \in { "a", SP, NL, "{" } }
BareKVs == { BareKV(k, v) : k \in { <<>>, <<"a">>, <<SP>>, <<"a", "1">> }, v \in KVParts }

\* The greatest number of test cases of a service and of texts of a batch.
MaxCases == 2
\* The texts given to a service: one repaired to {} and one left Unresolved.
ServiceTexts == { <<"{">>, <<"}">> }
TestCaseLists == UNION { [1..k -> ServiceTexts] : k \in 0..MaxCases }

TextsOf(alphabet, n) == UNION { [1..k -> alphabet] : k \in 0..n }
Inputs ==
    TextsOf(SmallAlphabet, MaxLen) \cup TextsOf(WordAlphabet, MaxLen)
    \cup TextsOf(CommentAlphabet, MaxLen + 1) \cup Curated \cup BareKVs

VARIABLES
    raw,          \* the text repair_jsonish was called with
    max_passes,   \* its max_passes
    rerun,        \* whether raw is the text the previous call returned
    pc,           \* the statement repair_jsonish is at
    s,            \* its s
    p,            \* its p (0 before the loop)
    diagnostics,  \* its diagnostics
    diags3,       \* whether the pass's fix_misplaced_brackets reported
    error_msg,    \* the error of the pass's parse
    out,          \* the second component of the result, once returned
    tool,         \* the JSONRepairTool of the call, NoTool for a direct call
    service,      \* the JSONRepairService, NoService without one
    op,           \* the method of the service that is running, NoOp if none
    result        \* what the last call of a method returned

\* What a step of repair_jsonish leaves alone.
call == <<raw, max_passes, rerun, tool, service, op, result>>
vars == <<call, pc, s, p, diagnostics, diags3, error_msg, out>>

\* None of the source.
None == <<"None">>
NoTool == [raw_data |-> None, repaired |-> None, pretty_or_err |-> None,
           diagnostics |-> <<>>, success |-> FALSE]
\* JSONRepairTool.__init__
JSONRepairTool(input_data) ==
    [raw_data |-> input_data, repaired |-> None, pretty_or_err |-> None,
     diagnostics |-> <<>>, success |-> FALSE]

NoOut == [ok |-> FALSE, text |-> <<>>, kind |-> "", pos |-> 0, line |-> 0, col |-> 0]

\* JSONRepairService.__init__
JSONRepairService(test_cases) == [test_cases |-> test_cases, results |-> <<>>]
NoService == JSONRepairService(<<>>)
\* The locals of run_tests and repair_batch: the list iterated, the index
\* of the iteration, success_count and results.
NoOp == [name |-> "none", inputs |-> <<>>, i |-> 0, success_count |-> 0, results |-> <<>>]
NoResult == [kind |-> "none"]

\* f"pre: {d}" (p = 0) and f"pass{p}: {d}"
\* The entry is tagged with the pass after the one that produced it.
TaggedWithNextPass(pass, d) ==
    [tag |-> "pass", p |-> pass + 1, msg |-> d.msg, args |-> d.args, txt |-> d.txt]
Tagged(pass, d) ==
    [tag |-> IF pass = 0 THEN "pre" ELSE "pass", p |-> pass,
     msg |-> d.msg, args |-> d.args, txt |-> d.txt]
RECURSIVE TagAll(_, _)
TagAll(pass, ds) ==
    IF ds = <<>> THEN <<>> ELSE <<Tagged(pass, Head(ds))>> \o TagAll(pass, Tail(ds))

Note(pass, msg) == Tagged(pass, Diag(msg, <<>>, <<>>))
\* f"pass{p}: still invalid JSON -> {error_msg}"
StillInvalid(pass, e) ==
    Tagged(pass, Diag("still invalid JSON -> %s", <<e.line, e.col, e.pos>>, <<e.kind>>))

\* s.replace("\r\n", "\n").replace("\r", "\n")
RECURSIVE normalize_line_endings(_)
normalize_line_endings(str) ==
    IF str = <<>> THEN <<>>
    ELSE IF Head(str) = CR
    THEN <<NL>> \o normalize_line_endings(
             IF Len(str) >= 2 /\ str[2] = NL THEN Tail(Tail(str)) ELSE Tail(str))
    ELSE <<Head(str)>> \o normalize_line_endings(Tail(str))

Begin(at, text, n, again, object) ==
    /\ raw = text /\ max_passes = n /\ rerun = again /\ tool = object
    /\ pc = at /\ s = text /\ p = 0 /\ diagnostics = <<>>
    /\ diags3 = FALSE /\ error_msg = NoOut /\ out = NoOut
    /\ op = NoOp /\ result = NoResult

\* A direct call of repair_jsonish(text, n), or a new JSONRepairTool(text),
\* or a new JSONRepairService(test_cases).
Init ==
    \/ \E text \in Inputs :
        /\ service = NoService
        /\ \/ \E n \in 0..MaxPassesBound : Begin("start", text, n, FALSE, NoTool)
           \/ Begin("new", text, DefaultMaxPasses, FALSE, JSONRepairTool(text))
    \/ \E test_cases \in TestCaseLists :
        /\ service = JSONRepairService(test_cases)
        /\ Begin("idle", <<>>, DefaultMaxPasses, FALSE, NoTool)

\* A statement `s = f(s)`.
Step(to, new_s) ==
    /\ pc' = to
    /\ s' = new_s
    /\ UNCHANGED <<call, p, diagnostics, diags3, error_msg, out>>

\* A statement `s, d = f(s); diagnostics.extend(tagged d)`.
StepDiag(to, r) ==
    /\ pc' = to
    /\ s' = r.s
    /\ diagnostics' = diagnostics \o TagAll(p, r.diags)
    /\ UNCHANGED <<call, p, diags3, error_msg, out>>

LineEndings == pc = "start" /\ Step("pre_wrap", normalize_line_endings(s))
PreWrap    == pc = "pre_wrap" /\ StepDiag("pre_promote", wrap_bare_kv_snippet(s))
PrePromote == pc = "pre_promote" /\ StepDiag("pre_stray", promote_stringified_json_values(s))
PreStray   == pc = "pre_stray" /\ StepDiag("loop", remove_stray_quote_after_number_token(s))

\* The loop never ends.
NextPassForever ==
    /\ pc = "loop"
    /\ p' = p + 1 /\ pc' = "wrap"
    /\ UNCHANGED <<call, s, diagnostics, diags3, error_msg, out>>
\* for p in range(1, max_passes + 1)
NextPass ==
    /\ pc = "loop"
    /\ IF p < max_passes THEN p' = p + 1 /\ pc' = "wrap" ELSE p' = p /\ pc' = "final"
    /\ UNCHANGED <<call, s, diagnostics, diags3, error_msg, out>>

Wrap    == pc = "wrap" /\ StepDiag("promote", wrap_bare_kv_snippet(s))
Promote == pc = "promote" /\ StepDiag("stray", promote_stringified_json_values(s))
Stray   == pc = "stray" /\ StepDiag("comments", remove_stray_quote_after_number_token(s))
StripComments        == pc = "comments" /\ Step("literals", strip_comments(s))
NormalizeLiterals    == pc = "literals" /\ Step("keys", normalize_literals(s))
QuoteUnquotedKeys    == pc = "keys" /\ Step("escape", quote_unquoted_keys(s))
EscapeSpecial        == pc = "escape" /\ Step("duplicates", escape_special_characters(s))
RemoveDuplicateKeys  == pc = "duplicates" /\ Step("values", remove_duplicate_keys(s))
FixMissingValues     == pc = "values" /\ Step("commas", fix_missing_values(s))
InsertMissingCommas  == pc = "commas" /\ Step("trailing", insert_missing_commas(s))
RemoveTrailingCommas == pc = "trailing" /\ Step("unclosed", remove_trailing_commas(s))
FixUnclosedStrings   == pc = "unclosed" /\ StepDiag("balance", fix_unclosed_strings_global(s))
BalanceBrackets      == pc = "balance" /\ StepDiag("misplaced", balance_brackets(s))

\* fix_misplaced_brackets, and clean_extra_brackets if it reported
FixMisplacedBrackets ==
    LET fixed(r) ==
            /\ pc' = "parse"
            /\ diags3' = (r.diags # <<>>)
            /\ s' = IF r.diags # <<>> THEN clean_extra_brackets(r.s) ELSE r.s
            /\ diagnostics' = diagnostics \o TagAll(p, r.diags)
            /\ UNCHANGED <<call, p, error_msg, out>>
    IN  pc = "misplaced" /\ fixed(fix_misplaced_brackets(s))

\* return s, o.text, diagnostics + [the note]
Return(new_s, o, ds) ==
    /\ pc' = "done"
    /\ s' = new_s
    /\ out' = o
    /\ diagnostics' = ds

\* The failure of the parse of a pass is not noted.
ParseWithoutNote ==
    LET parsed(o) ==
            /\ IF o.ok
               THEN /\ Return(s, o, Append(diagnostics, Note(p, "parsed successfully")))
                    /\ UNCHANGED error_msg
               ELSE /\ pc' = "cut"
                    /\ error_msg' = o
                    /\ UNCHANGED <<s, out, diagnostics>>
            /\ UNCHANGED <<call, p, diags3>>
    IN  pc = "parse" /\ parsed(try_parse_json(s))
\* ok, out = try_parse_json(s) and the branch on ok
Parse ==
    LET parsed(o) ==
            /\ IF o.ok
               THEN /\ Return(s, o, Append(diagnostics, Note(p, "parsed successfully")))
                    /\ UNCHANGED error_msg
               ELSE /\ pc' = "cut"
                    /\ error_msg' = o
                    /\ diagnostics' = Append(diagnostics, StillInvalid(p, o))
                    /\ UNCHANGED <<s, out>>
            /\ UNCHANGED <<call, p, diags3>>
    IN  pc = "parse" /\ parsed(try_parse_json(s))

\* The truncated text is not parsed in the pass.
AfterTruncationWithoutParse(r, to, note) ==
    LET balance(b) ==
            /\ pc' = to
            /\ s' = b.s
            /\ diagnostics' = diagnostics \o TagAll(p, r.diags) \o TagAll(p, b.diags)
            /\ UNCHANGED out
    IN  balance(balance_brackets(remove_trailing_commas(r.s)))
\* After a truncation r that changed s: the trailing commas, the brackets,
\* the parse, and the return if it succeeds.
AfterTruncation(r, to, note) ==
    LET parsed(b, o, ds) ==
            IF o.ok
            THEN Return(b.s, o, Append(ds, Note(p, note)))
            ELSE /\ pc' = to
                 /\ s' = b.s
                 /\ diagnostics' = ds
                 /\ UNCHANGED out
        balance(b) ==
            parsed(b, try_parse_json(b.s),
                   diagnostics \o TagAll(p, r.diags) \o TagAll(p, b.diags))
    IN  balance(balance_brackets(remove_trailing_commas(r.s)))

\* truncate_around_error_position and what follows it
ErrorPositionTruncation ==
    LET cut(r) ==
            /\ IF r.s # s
               THEN AfterTruncation(r, "trunc",
                        "parsed successfully after error-position truncation")
               ELSE pc' = "trunc" /\ UNCHANGED <<s, diagnostics, out>>
            /\ UNCHANGED <<call, p, diags3, error_msg>>
    IN  pc = "cut" /\ cut(truncate_around_error_position(s, error_msg))

\* truncate_after_last_container_close and what follows it
GarbageTailTruncation ==
    LET cut(r) ==
            /\ IF r.s # s
               THEN AfterTruncation(r, "smart", "parsed successfully after truncation")
               ELSE pc' = "smart" /\ UNCHANGED <<s, diagnostics, out>>
            /\ UNCHANGED <<call, p, diags3, error_msg>>
    IN  pc = "trunc" /\ cut(truncate_after_last_container_close(s))

\* smart_insert_brackets_by_error and what follows it
SmartInsert ==
    LET parsed(r, o, ds) ==
            IF o.ok
            THEN Return(r.s, o, Append(ds, Note(p, "parsed successfully after smart fix")))
            ELSE /\ pc' = "loop"
                 /\ s' = r.s
                 /\ diagnostics' = ds
                 /\ UNCHANGED out
        fixed(r) ==
            /\ IF /\ error_msg.kind \in { "Expecting ',' delimiter", "Expecting ':' delimiter" }
                  /\ r.s # s
               THEN parsed(r, try_parse_json(r.s), diagnostics \o TagAll(p, r.diags))
               ELSE pc' = "loop" /\ UNCHANGED <<s, diagnostics, out>>
            /\ UNCHANGED <<call, p, diags3, error_msg>>
    IN  pc = "smart" /\ fixed(smart_insert_brackets_by_error(s, error_msg))

\* The error of the last pass is returned, without a parse of the final text.
FinalWithoutParse ==
    /\ pc = "final"
    /\ Return(s, error_msg, diagnostics)
    /\ UNCHANGED <<call, p, diags3, error_msg>>
\* Final failure: ok, out = try_parse_json(s); return s, out, diagnostics
FinalParse ==
    /\ pc = "final"
    /\ Return(s, try_parse_json(s), diagnostics)
    /\ UNCHANGED <<call, p, diags3, error_msg>>

\* JSONRepairTool.repair, from the return of repair_jsonish on.
ToolRepair ==
    /\ pc = "done"
    /\ tool # NoTool
    /\ tool' = [tool EXCEPT !.repaired = s, !.pretty_or_err = out,
                            !.diagnostics = diagnostics,
                            !.success = try_parse_json(s).ok]
    /\ pc' = "returned"
    /\ UNCHANGED <<raw, max_passes, rerun, s, p, diagnostics, diags3, error_msg, out>>
    /\ UNCHANGED <<service, op, result>>

\* The caller repairs the text it was returned, the way it repaired the
\* first.  A returned text equal to the text given is repaired as that text
\* was.
RepairAgain ==
    /\ \/ pc = "done" /\ tool = NoTool
       \/ pc = "returned" /\ op.name = "none"
    /\ s # raw
    /\ raw' = s /\ rerun' = TRUE
    /\ tool' = IF tool = NoTool THEN NoTool ELSE JSONRepairTool(s)
    /\ pc' = "start" /\ p' = 0 /\ diagnostics' = <<>>
    /\ diags3' = FALSE /\ error_msg' = NoOut /\ out' = NoOut
    /\ result' = NoResult
    /\ UNCHANGED <<s, max_passes, service, op>>

(***************************************************************************)
(* The methods of JSONRepairTool and of JSONRepairService.  What they      *)
(* print is not part of the state.                                         *)
(***************************************************************************)

\* JSONRepairTool.output_to_console: the dictionary it returns.
output_to_console(t) ==
    [kind |-> "result", success |-> t.success, original |-> t.raw_data,
     repaired |-> t.repaired, diagnostics |-> t.diagnostics,
     pretty_json |-> IF t.success THEN t.pretty_or_err ELSE None,
     error |-> IF t.success THEN None ELSE t.pretty_or_err]

\* JSONRepairTool.get_result: the same with json_object, the value of the
\* repaired text.
get_result(t) ==
    LET object(r) == IF r.ok THEN r.val ELSE None IN
    [kind |-> "result", success |-> t.success, original |-> t.raw_data,
     repaired |-> t.repaired, diagnostics |-> t.diagnostics,
     pretty_json |-> IF t.success THEN t.pretty_or_err ELSE None,
     error |-> IF t.success THEN None ELSE t.pretty_or_err,
     json_object |-> IF t.success THEN object(json_loads(t.repaired)) ELSE None]

\* success / total * 100, kept as the fraction.
success_rate(success, total) ==
    IF total > 0 THEN [num |-> success * 100, den |-> total] ELSE [num |-> 0, den |-> 1]

\* sum(1 for r in results if r['result']['success'])
RECURSIVE successes(_)
successes(results) ==
    IF results = <<>> THEN 0
    ELSE (IF Head(results).result.success THEN 1 ELSE 0) + successes(Tail(results))

\* JSONRepairService.get_statistics
get_statistics(sv) ==
    IF sv.results = <<>>
    THEN [kind |-> "statistics", total |-> 0, success |-> 0, failed |-> 0,
          success_rate |-> success_rate(0, 0), message |-> TRUE]
    ELSE LET stats(total, success) ==
                 [kind |-> "statistics", total |-> total, success |-> success,
                  failed |-> total - success,
                  success_rate |-> success_rate(success, total), message |-> FALSE]
         IN  stats(Len(sv.results), successes(sv.results))

\* The summary run_tests returns.
summary(sv, success_count) ==
    LET total == Len(sv.test_cases) IN
    [kind |-> "summary", total |-> total, success |-> success_count,
     failed |-> total - success_count,
     success_rate |-> success_rate(success_count, total), results |-> sv.results]

\* tool = JSONRepairTool(input_data=text); tool.repair(), up to the first
\* statement of repair_jsonish(self.raw_data).
Enter(text) ==
    /\ raw' = text /\ max_passes' = DefaultMaxPasses /\ rerun' = FALSE
    /\ tool' = JSONRepairTool(text)
    /\ pc' = "start" /\ s' = text /\ p' = 0 /\ diagnostics' = <<>>
    /\ diags3' = FALSE /\ error_msg' = NoOut /\ out' = NoOut

\* The method of the service returns: its locals are left as they are.
Leave ==
    /\ pc' = "idle"
    /\ UNCHANGED <<raw, max_passes, rerun, tool, s, p, diagnostics, diags3, error_msg, out>>

\* What a call on the tool alone leaves alone.
frame == <<raw, max_passes, rerun, s, p, diagnostics, diags3, error_msg, out>>

\* tool.repair() of a new tool, at its call of repair_jsonish.
CallRepair ==
    /\ pc = "new"
    /\ pc' = "start"
    /\ result' = NoResult
    /\ UNCHANGED <<frame, tool, service, op>>

\* tool.get_result(), before or after tool.repair()
GetResult ==
    /\ pc \in { "new", "returned" } /\ op.name = "none"
    /\ result' = get_result(tool)
    /\ UNCHANGED <<frame, pc, tool, service, op>>

\* tool.output_to_console(), before or after tool.repair()
OutputToConsole ==
    /\ pc \in { "new", "returned" } /\ op.name = "none"
    /\ result' = output_to_console(tool)
    /\ UNCHANGED <<frame, pc, tool, service, op>>

\* run_tests without its `self.results = []`: the results of the earlier
\* runs are kept.
RunTestsKeepingResults ==
    /\ pc = "idle"
    /\ UNCHANGED service
    /\ IF service.test_cases = <<>>
       THEN /\ result' = summary(service, 0)
            /\ UNCHANGED <<frame, pc, tool, op>>
       ELSE /\ op' = [name |-> "run_tests", inputs |-> service.test_cases, i |-> 1,
                      success_count |-> 0, results |-> <<>>]
            /\ result' = NoResult
            /\ Enter(service.test_cases[1])
\* service.run_tests(), up to tool.repair() of the first test case, or to
\* its return when there is no test case.
RunTests ==
    /\ pc = "idle"
    /\ service' = [service EXCEPT !.results = <<>>]
    /\ IF service.test_cases = <<>>
       THEN /\ result' = summary(service', 0)
            /\ UNCHANGED <<frame, pc, tool, op>>
       ELSE /\ op' = [name |-> "run_tests", inputs |-> service.test_cases, i |-> 1,
                      success_count |-> 0, results |-> <<>>]
            /\ result' = NoResult
            /\ Enter(service.test_cases[1])

\* The rest of an iteration of run_tests after tool.repair(): the result is
\* stored and counted, then the next iteration begins or run_tests returns.
RunTestsCase ==
    LET stored(r) ==
            /\ service' = [service EXCEPT
                               !.results = Append(@, [case_number |-> op.i, result |-> r])]
            /\ IF op.i < Len(op.inputs)
               THEN /\ op' = [op EXCEPT !.i = @ + 1,
                                        !.success_count = IF r.success THEN @ + 1 ELSE @]
                    /\ Enter(op.inputs[op.i + 1])
                    /\ UNCHANGED result
               ELSE /\ result' = summary(service',
                                         IF r.success THEN op.success_count + 1
                                         ELSE op.success_count)
                    /\ op' = NoOp
                    /\ Leave
    IN  pc = "returned" /\ op.name = "run_tests" /\ stored(output_to_console(tool))

\* service.repair_single(text), up to tool.repair()
RepairSingle(text) ==
    /\ pc = "idle"
    /\ op' = [name |-> "repair_single", inputs |-> <<text>>, i |-> 1,
              success_count |-> 0, results |-> <<>>]
    /\ result' = NoResult
    /\ Enter(text)
    /\ UNCHANGED service

\* The rest of repair_single: return tool.get_result()
RepairSingleReturn ==
    /\ pc = "returned" /\ op.name = "repair_single"
    /\ result' = get_result(tool)
    /\ op' = NoOp
    /\ Leave
    /\ UNCHANGED service

\* service.repair_batch(texts), up to tool.repair() of the first text, or
\* to its return when there is none.
RepairBatch(texts) ==
    /\ pc = "idle"
    /\ IF texts = <<>>
       THEN /\ result' = [kind |-> "batch", results |-> <<>>]
            /\ UNCHANGED <<frame, pc, tool, op>>
       ELSE /\ op' = [name |-> "repair_batch", inputs |-> texts, i |-> 1,
                      success_count |-> 0, results |-> <<>>]
            /\ result' = NoResult
            /\ Enter(texts[1])
    /\ UNCHANGED service

\* The rest of an iteration of repair_batch after repair_single's
\* tool.repair(): the result is appended, then the next iteration begins or
\* the list is returned.
RepairBatchCase ==
    LET appended(results) ==
            IF op.i < Len(op.inputs)
            THEN /\ op' = [op EXCEPT !.i = @ + 1, !.results = results]
                 /\ Enter(op.inputs[op.i + 1])
                 /\ UNCHANGED result
            ELSE /\ result' = [kind |-> "batch", results |-> results]
                 /\ op' = NoOp
                 /\ Leave
    IN  /\ pc = "returned" /\ op.name = "repair_batch"
        /\ appended(Append(op.results, get_result(tool)))
        /\ UNCHANGED service

\* service.get_statistics()
GetStatistics ==
    /\ pc = "idle"
    /\ result' = get_statistics(service)
    /\ UNCHANGED <<frame, pc, tool, service, op>>

\* The statements of one invocation.
Run ==
    \/ LineEndings \/ PreWrap \/ PrePromote \/ PreStray \/ NextPass
    \/ Wrap \/ Promote \/ Stray
    \/ StripComments \/ NormalizeLiterals \/ QuoteUnquotedKeys \/ EscapeSpecial
    \/ RemoveDuplicateKeys \/ FixMissingValues \/ InsertMissingCommas
    \/ RemoveTrailingCommas \/ FixUnclosedStrings \/ BalanceBrackets
    \/ FixMisplacedBrackets \/ Parse
    \/ ErrorPositionTruncation \/ GarbageTailTruncation \/ SmartInsert
    \/ FinalParse \/ ToolRepair

\* The calls on a tool.
Tool == CallRepair \/ GetResult \/ OutputToConsole

\* The calls on a service and their iterations.
Service ==
    \/ RunTests \/ RunTestsCase
    \/ \E text \in ServiceTexts : RepairSingle(text)
    \/ RepairSingleReturn
    \/ \E texts \in TestCaseLists : RepairBatch(texts)
    \/ RepairBatchCase
    \/ GetStatistics

Next == Run \/ RepairAgain \/ Tool \/ Service

Spec == Init /\ [][Next]_vars

(***************************************************************************)
(* The properties.                                                         *)
(***************************************************************************)

AllIn(T, set) == \A k \in 1..Len(T) : T[k] \in set
\* The empty text and the texts of whitespace only.
Blank(T) == AllIn(T, WS4)
\* A single bare word.
IsWord(T) == T # <<>> /\ IsIdentStart(T[1]) /\ AllIn(T, Lower \cup Upper \cup Digits \cup { "_" })
W_NaN == <<"N", "a", "N">>
W_Infinity == <<"I", "n", "f", "i", "n", "i", "t", "y">>
\* The text is returned as Unresolved, with no brace, quote or colon in it.
UnresolvedAsIs == ~out.ok /\ \A k \in 1..Len(s) : s[k] \notin { "{", "}", Q, ":" }
IsPrefix(a, b) == Len(a) <= Len(b) /\ SubSeq(b, 1, Len(a)) = a
\* The templates of the diagnostics with the word Inserted or Appended.
InsertedOrAppended ==
    { "Appended %d missing brackets: %s", "Appended %d missing ']' at end",
      "Appended %d missing '}' at end", "Inserted '}' before ']' on line %d",
      "Inserted ']' after line %d to close array", "Inserted ',' after line %d" }
\* The text has a comment marker, // or /*, at index i.
MarkerAt(T, i) == StartsWithAt(T, i, <<"/", "/">>) \/ StartsWithAt(T, i, <<"/", "*">>)
HasMarker(T) == \E i \in 0..(Len(T) - 1) : MarkerAt(T, i)
\* Every comment marker of the text starts inside a string literal.
MarkersInStrings(T) ==
    LET inside(ranges) ==
            \A i \in 0..(Len(T) - 1) :
                MarkerAt(T, i) => \E k \in 1..Len(ranges) :
                                      ranges[k][1] <= i /\ i <= ranges[k][2]
    IN  inside(compute_string_ranges(T))
\* The first character of the text after its leading whitespace is } or ].
LeadingCloser(T) == lstrip(T) # <<>> /\ Head(lstrip(T)) \in { "}", "]" }
\* T is "k": "v" with the quote at index n + 1 closing k, k and v without
\* quote or backslash.
IsBareKV(T, n) ==
    /\ n >= 0 /\ Len(T) >= n + 6
    /\ T = BareKV(Slice(T, 1, n + 1), Slice(T, n + 5, Len(T) - 1))
    /\ \A k \in (2..(n + 1)) \cup ((n + 6)..(Len(T) - 1)) : T[k] \notin { Q, BS }
\* The object {k: v} of the snippet.
KVObject(T, n) ==
    Val("obj", <<>>, <<Slice(T, 1, n + 1)>>,
        <<Val("str", Slice(T, n + 5, Len(T) - 1), <<>>, <<>>)>>)
\* The pre-pass wrapped the text and repair returned Parsed with {k: v}.
WrappedAndParsed(T, n) ==
    /\ diagnostics # <<>>
    /\ diagnostics[1] =
           Tagged(0, Diag("wrapped bare key/value snippet with surrounding '{ }'", <<>>, <<>>))
    /\ out.ok
    /\ json_loads(s).val = KVObject(T, n)
\* No control character, and v is not { or [ followed by spaces only.
Printable(T) == \A k \in 1..Len(T) : ~IsControl(T[k])
OpensContainerOnly(v) ==
    v # <<>> /\ Head(v) \in { "{", "[" } /\ AllIn(Tail(v), { SP })

\* C1: for every input text the strict parser accepts as is, repair returns
\* Parsed and the canonical form of the returned text's value is that of
\* the input's value.
C1_ValidInputKeepsItsValue ==
    (pc = "done" /\ json_loads(raw).ok) =>
        (out.ok /\ out.text = try_parse_json(raw).text)

\* C2: whenever repair_jsonish has returned, its second component is the
\* result of try_parse_json on the returned text, and the fields of the
\* tool that called it agree: success is whether the outcome is the JSON.
C2_OutcomeReflectsFinalText ==
    /\ pc \in { "done", "returned" } => out = try_parse_json(s)
    /\ pc = "returned" =>
           /\ tool.repaired = s
           /\ tool.pretty_or_err = out
           /\ tool.success = out.ok
C2_Witness ==
    /\ pc = "returned" /\ tool.success /\ tool.repaired # tool.raw_data
    /\ \E k \in 1..Len(diagnostics) :
           diagnostics[k].msg = "parsed successfully after error-position truncation"

\* C3: repairing the text repair returned returns that text again.
C3_Idempotent == (pc = "done" /\ rerun) => s = raw

\* C4: the driver never runs more than max_passes passes, and every step
\* of an invocation, each of which runs the loops of its transform to
\* their end, lowers a measure that is never negative: the passes left
\* and, within the pass, the statements left.  So an invocation takes a
\* bounded number of steps and then has returned.
StatementsLeft ==
    CASE pc = "start" -> 25 [] pc = "pre_wrap" -> 24 [] pc = "pre_promote" -> 23
      [] pc = "pre_stray" -> 22 [] pc = "wrap" -> 21 [] pc = "promote" -> 20
      [] pc = "stray" -> 19 [] pc = "comments" -> 18 [] pc = "literals" -> 17
      [] pc = "keys" -> 16 [] pc = "escape" -> 15 [] pc = "duplicates" -> 14
      [] pc = "values" -> 13 [] pc = "commas" -> 12 [] pc = "trailing" -> 11
      [] pc = "unclosed" -> 10 [] pc = "balance" -> 9 [] pc = "misplaced" -> 8
      [] pc = "parse" -> 7 [] pc = "cut" -> 6 [] pc = "trunc" -> 5
      [] pc = "smart" -> 4 [] pc = "loop" -> 3 [] pc = "final" -> 2
      [] pc = "done" -> 1 [] pc \in { "returned", "new", "idle" } -> 0
Measure == (max_passes - p) * 26 + StatementsLeft
C4_Terminates ==
    /\ [](p <= max_passes /\ Measure >= 0)
    /\ [][(pc \notin { "returned", "new", "idle" } /\ pc' # "start")
            => Measure' < Measure]_vars
C4_Witness ==
    pc = "done" /\ ~out.ok /\ p = max_passes /\ max_passes = DefaultMaxPasses /\ s # raw

\* C5: for every input text the strict parser accepts as is, no diagnostic
\* of repair has the word Inserted or Appended.
C5_NoInsertionOnValidInput ==
    (pc = "done" /\ json_loads(raw).ok) =>
        \A k \in 1..Len(diagnostics) : diagnostics[k].msg \notin InsertedOrAppended

\* C6: within an invocation every step keeps the diagnostics it found as a
\* prefix of those it leaves and tags the ones it adds with its phase, pre
\* before the loop and pass p in pass p; so every entry is tagged pre or
\* pass p with 1 <= p <= max_passes, the pre entries come first and the
\* pass numbers never decrease.
TagsInOrder ==
    \A k \in 1..Len(diagnostics) :
        /\ diagnostics[k].tag \in { "pre", "pass" }
        /\ diagnostics[k].tag = "pre" <=> diagnostics[k].p = 0
        /\ diagnostics[k].tag = "pass" => diagnostics[k].p \in 1..max_passes
        /\ k > 1 => /\ diagnostics[k - 1].p <= diagnostics[k].p
                    /\ diagnostics[k].tag = "pre" => diagnostics[k - 1].tag = "pre"
AppendOnly ==
    pc' # "start" =>
        /\ IsPrefix(diagnostics, diagnostics')
        /\ \A k \in (Len(diagnostics) + 1)..Len(diagnostics') :
               diagnostics'[k].p = p /\ (diagnostics'[k].tag = "pre" <=> pc \in
                   { "pre_wrap", "pre_promote", "pre_stray" })
C6_DiagnosticsAppendOnlyAndTagged == []TagsInOrder /\ [][AppendOnly]_vars
C6_Witness ==
    /\ pc = "done" /\ Len(diagnostics) >= 3
    /\ diagnostics[1].tag = "pre"
    /\ \E j, k \in 2..Len(diagnostics) :
           j < k /\ diagnostics[j].p = 1 /\ diagnostics[k].p = 2

\* C7 as stated: the empty text, a text of whitespace only and a single
\* bare word other than true, false and null are returned Unresolved, with
\* no brace, quote or colon added.
C7_WordsStayUnresolved ==
    (pc = "done" /\ (Blank(raw) \/ (IsWord(raw) /\ raw \notin { W_true, W_false, W_null })))
        => UnresolvedAsIs
\* C7 amended: the same, for the words other than True, False and NULL
\* that do not begin with true, false, null, NaN or Infinity.
C7_OtherWordsStayUnresolved ==
    (/\ pc = "done"
     /\ \/ Blank(raw)
        \/ /\ IsWord(raw)
           /\ raw \notin { W_True, W_False, W_NULL }
           /\ \A w \in { W_true, W_false, W_null, W_NaN, W_Infinity } :
                  ~StartsWithAt(raw, 0, w))
        => UnresolvedAsIs
C7_Witness ==
    /\ pc = "done" /\ ~out.ok /\ max_passes = DefaultMaxPasses
    /\ IsWord(raw) /\ Len(raw) = 5 /\ s = raw

C9_CommentsInStringsSurvive ==
    [][(pc = "comments" /\ MarkersInStrings(s)) => s' = s]_vars
C9_Witness == pc = "literals" /\ HasMarker(s) /\ MarkersInStrings(s)

\* C10: a text whose first character after its whitespace is } or ] is
\* returned Unresolved, and at every step the text still begins with that
\* bracket or is whitespace only.
C10_LeadingCloserUnresolved ==
    LeadingCloser(raw) =>
        /\ pc \in { "done", "returned" } => ~out.ok
        /\ LeadingCloser(s) \/ Blank(s)
C10_Witness ==
    /\ pc = "done" /\ LeadingCloser(raw) /\ Len(raw) >= 8 /\ ~out.ok
    /\ max_passes = DefaultMaxPasses

\* C11: the diagnostics do not grow with the text: no transform has more
\* than three statements that append an entry, so no step of the driver adds
\* more than three entries to the diagnostics whatever the text is.
C11_DiagnosticsBoundedPerStep ==
    [][Len(diagnostics') <= Len(diagnostics) + 3]_vars

\* A field of a result dictionary is None.
IsNone(x) == DOMAIN x = DOMAIN None

\* C12: every dictionary get_result() or output_to_console() returns,
\* before the first repair() as well as after it, has exactly one of
\* pretty_json and error set: pretty_json if and only if success is true,
\* error if and only if success is false.
C12_ExactlyOneOfPrettyJsonAndError ==
    result.kind = "result" =>
        /\ IsNone(result.pretty_json) # IsNone(result.error)
        /\ ~IsNone(result.pretty_json) <=> result.success
        /\ ~IsNone(result.error) <=> ~result.success

\* The cases of the stored results whose repaired text the strict parser
\* accepts.
ParsedCases ==
    { k \in 1..Len(service.results) : try_parse_json(service.results[k].result.repaired).ok }
\* What get_statistics() returned is the count of the stored results, which
\* are those of the last run_tests(): none before the first.
StatisticsOfLastRun ==
    result.kind = "statistics" =>
        /\ result.total = Len(service.results)
        /\ service.results # <<>> => result.total = Len(service.test_cases)
        /\ service.results = <<>> => result.success = 0 /\ result.failed = 0
        /\ result.success + result.failed = result.total
        /\ result.success = Cardinality(ParsedCases)
\* A step of repair_single or repair_batch leaves the service as it is.
RepairKeepsResults ==
    (\/ { op.name, op'.name } \cap { "repair_single", "repair_batch" } # {}
     \/ result'.kind = "batch")
        => service' = service
\* The list repair_batch returns has the result of each text, in their order.
BatchInOrder ==
    (op.name = "repair_batch" /\ op'.name = "none") =>
        /\ result'.kind = "batch"
        /\ Len(result'.results) = Len(op.inputs)
        /\ \A k \in 1..Len(op.inputs) : result'.results[k].original = op.inputs[k]

\* C13: get_statistics() reports the counts of the last run_tests(): total
\* is the number of test cases, success + failed = total, success is the
\* number of cases whose repaired text parses, and all are 0 before the
\* first run_tests(); repair_single and repair_batch leave the stored
\* results alone, and repair_batch returns one result for each text, in
\* their order.
C13_StatisticsOfLastRunTests ==
    []StatisticsOfLastRun /\ [][RepairKeepsResults /\ BatchInOrder]_vars
\* Statistics of a run of two test cases, one repaired and one not, asked
\* for after a later repair_single or repair_batch.
C13_Witness ==
    /\ result.kind = "statistics" /\ result.total = 2
    /\ result.success = 1 /\ result.failed = 1
    /\ raw # service.test_cases[2]

\* C14: in a pass whose parse failed, the garbage-tail truncation is
\* attempted only if the error-position truncation left the text unchanged,
\* and the error-guided insertion only if both did: the text reaches each
\* of them as it was when the parse failed.
C14_RecoveriesAreExclusive ==
    [][/\ (pc = "cut" /\ pc' = "trunc") => s' = s
       /\ (pc = "trunc" /\ pc' = "smart") => s' = s]_vars

\* The characters of T at the indices inside its string ranges, in order.
RECURSIVE chars_in_ranges(_, _, _)
chars_in_ranges(T, ranges, i) ==
    IF i >= Len(T) THEN <<>>
    ELSE (IF \E k \in 1..Len(ranges) : ranges[k][1] <= i /\ i <= ranges[k][2]
          THEN <<At(T, i)>> ELSE <<>>) \o chars_in_ranges(T, ranges, i + 1)
StringChars(T) == chars_in_ranges(T, compute_string_ranges(T), 0)
\* A is B with some of its characters left out.
RECURSIVE IsSubsequence(_, _)
IsSubsequence(A, B) ==
    IF A = <<>> THEN TRUE
    ELSE IF B = <<>> THEN FALSE
    ELSE IF Head(A) = Head(B) THEN IsSubsequence(Tail(A), Tail(B))
    ELSE IsSubsequence(A, Tail(B))
\* The statements of the driver that are substitutions outside strings.
Substitutions == { "comments", "literals", "keys", "values", "commas", "trailing" }

MissingValueAt(T, i) ==
    LET literal(ranges) == \E k \in 1..Len(ranges) : ranges[k][1] = i
    IN  re_match("missing_value", T, i)[1] >= 0 /\ literal(compute_string_ranges(T))
W_null_comma == W_null \o <<",">>

\* C16: fix_missing_values gives a key that is followed by a comma the
\* value null: a text with such a key is changed, and the result has
\* `null,` in it.
C16_MissingValueFilled ==
    [][(pc = "values" /\ \E i \in 0..(Len(s) - 1) : MissingValueAt(s, i))
          => (s' # s /\ \E j \in 0..(Len(s') - 1) : StartsWithAt(s', j, W_null_comma))]_vars

\* A string literal of T is closed at index e and directly followed, after
\* optional whitespace, by {, [ or the quote of another string.
StringThenValueAt(T, e) ==
    LET closes(ranges) ==
            \E k \in 1..Len(ranges) : ranges[k][1] < e /\ ranges[k][2] = e /\ At(T, e) = Q
    IN  /\ closes(compute_string_ranges(T))
        /\ CharIn(T, re_ws(T, e + 1), { "{", "[", Q })

\* C17: insert_missing_commas puts a comma after a string that is directly
\* followed by another value or key: a text with such a string leaves it
\* with one more comma at least.
C17_CommaAfterString ==
    [][(pc = "commas" /\ \E e \in 0..(Len(s) - 1) : StringThenValueAt(s, e))
          => Count(s', ",") > Count(s, ",")]_vars

\* The notes of a successful parse inside a pass.
ParsedNotes ==
    { "parsed successfully", "parsed successfully after error-position truncation",
      "parsed successfully after truncation", "parsed successfully after smart fix" }

\* C18: with max_passes >= 1 the text that reaches the final parse does not
\* parse, and a Parsed outcome has as its last diagnostic the note of the
\* successful parse of the pass p it was returned from.
C18_ParsedOnlyInsideAPass ==
    max_passes >= 1 =>
        /\ pc = "final" => ~try_parse_json(s).ok
        /\ (pc = "done" /\ out.ok) =>
               /\ p \in 1..max_passes
               /\ diagnostics # <<>>
               /\ diagnostics[Len(diagnostics)].tag = "pass"
               /\ diagnostics[Len(diagnostics)].p = p
               /\ diagnostics[Len(diagnostics)].msg \in ParsedNotes
C18_Witness ==
    /\ pc = "done" /\ out.ok /\ p >= 2
    /\ diagnostics[Len(diagnostics)].msg = "parsed successfully"
    /\ \E k \in 1..Len(diagnostics) : diagnostics[k].p = 1

\* The statements of a pass from remove_duplicate_keys to the parse.
FromCollapseToParse ==
    { "duplicates", "values", "commas", "trailing", "unclosed", "balance", "misplaced" }
\* A text that parses is left a text that parses, with the same value.
KeepsValue ==
    LET same(before, after) == before.ok => (after.ok /\ after.text = before.text)
    IN  same(try_parse_json(s), try_parse_json(s'))

\* C19: remove_duplicate_keys leaves a text that does not parse unchanged;
\* a text that parses when it runs keeps parsing, with the same value,
\* through it and through every statement that follows it in the pass, and
\* the parse of that pass returns it as Parsed.
C19_CollapseIsAnEarlyExit ==
    [][/\ (pc = "duplicates" /\ ~json_loads(s).ok) => s' = s
       /\ (pc \in FromCollapseToParse) => KeepsValue
       /\ (pc = "parse" /\ json_loads(s).ok) => (pc' = "done" /\ out'.ok /\ p' = p)]_vars
\* A text with a duplicate key, returned collapsed in the first pass.
C19_Witness ==
    /\ pc = "done" /\ out.ok /\ p = 1
    /\ json_loads(raw).ok /\ s = remove_duplicate_keys(raw) /\ Len(s) < Len(raw)

\* C20: the text fix_unclosed_strings_global returns has no newline inside
\* a string literal.
C20_NoRawNewlineInStrings ==
    LET outside(ranges) ==
            \A i \in 0..(Len(s) - 1) :
                At(s, i) = NL => ~\E k \in 1..Len(ranges) :
                                     ranges[k][1] <= i /\ i <= ranges[k][2]
    IN  pc = "balance" => outside(compute_string_ranges(s))

\* The in_string and escape_next flags of the string state machine at the
\* end of T.
RECURSIVE scan_end(_, _, _, _)
scan_end(T, i, in_string, escape_next) ==
    IF i >= Len(T) THEN <<in_string, escape_next>>
    ELSE IF escape_next THEN scan_end(T, i + 1, in_string, FALSE)
    ELSE IF At(T, i) = BS THEN scan_end(T, i + 1, in_string, TRUE)
    ELSE IF At(T, i) = Q THEN scan_end(T, i + 1, ~in_string, FALSE)
    ELSE scan_end(T, i + 1, in_string, FALSE)
\* T ends outside every string literal and not on an escape.
EndsOutside(T) == scan_end(T, 0, FALSE, FALSE) = <<FALSE, FALSE>>

\* C21: the text fix_unclosed_strings_global returns ends outside every
\* string literal and not on an escape, fix_unclosed_strings_global
\* returns it unchanged and without a diagnostic, and it has at most one
\* quote more than the text given.
C21_UnclosedStringsClosed ==
    /\ [](pc = "balance" =>
             /\ EndsOutside(s)
             /\ fix_unclosed_strings_global(s) = Ret(s, <<>>))
    /\ [][pc = "unclosed" => Count(s', Q) <= Count(s, Q) + 1]_vars
\* The text ended on a backslash inside a string: the backslash was
\* dropped and the quote appended.
C21_Witness ==
    /\ pc = "balance" /\ Len(diagnostics) >= 2
    /\ diagnostics[Len(diagnostics) - 1].msg = "removed dangling backslash at end of text"
    /\ diagnostics[Len(diagnostics)].msg = "appended missing '\"' at end (unterminated string)"
    /\ s[Len(s)] = Q


\* Every string literal of T is terminated: the string state machine is
\* outside a string at the end of T.
StringsTerminated(T) == ~scan_end(T, 0, FALSE, FALSE)[1]

\* C22: balance_brackets_smart returns the text given followed by the
\* closing brackets of the open brackets its walk left on the stack,
\* innermost first, and when every string literal of the text given is
\* terminated, balance_brackets_smart returns its own output unchanged and
\* without a diagnostic.
C22_SmartBalanceOnlyAppends ==
    LET holds(r, stack) ==
            /\ IsPrefix(s, r.s)
            /\ r.s = s \o closing_of(stack)
            /\ StringsTerminated(s) =>
                   balance_brackets_smart(r.s) = Ret(r.s, <<>>)
    IN  holds(balance_brackets_smart(s),
              bracket_stack(strip_strings(s), 0, <<>>))


\* C23: balance_brackets leaves a text that parses strictly as it is and
\* records no diagnostic for it.
C23_ParseableTextKeptByBalance ==
    [][(pc = "balance" /\ try_parse_json(s).ok) =>
           (s' = s /\ diagnostics' = diagnostics)]_vars
\* balance_brackets has run on a text that parses strictly and has an open
\* bracket inside a string literal that no closing bracket answers.
C23_Witness ==
    /\ pc = "misplaced" /\ try_parse_json(s).ok
    /\ Count(s, "[") > Count(s, "]")


\* The character of T at index k (from 0) is a } or ] that the string state
\* machine meets outside every string literal and not after a backslash.
CloserOutsideStrings(T, k) ==
    /\ At(T, k) \in { "}", "]" }
    /\ scan_end(Slice(T, 0, k), 0, FALSE, FALSE) = <<FALSE, FALSE>>
\* cut is prefix, or prefix cut after its last } or ] outside strings.
CutAtLastCloser(cut, prefix) ==
    \/ cut = prefix
    \/ /\ IsPrefix(cut, prefix) /\ cut # <<>>
       /\ CloserOutsideStrings(prefix, Len(cut) - 1)
       /\ \A k \in Len(cut)..(Len(prefix) - 1) : ~CloserOutsideStrings(prefix, k)

\* C24 as claimed: for an error at character N of the text, 0 <= N <= len,
\* truncate_around_error_position returns what
\* truncate_after_last_container_close returns for the first N characters.
C24_TruncatedAtErrorPosition ==
    pc = "cut" =>
        truncate_around_error_position(s, error_msg).s
            = truncate_after_last_container_close(Slice(s, 0, error_msg.pos)).s
\* C24: for an error at character N of the text, 0 < N < len,
\* truncate_around_error_position returns what
\* truncate_after_last_container_close returns for the first N characters,
\* which is these N characters or their part up to the last } or ] outside
\* strings; for N = 0 and for N = len it returns the text unchanged and
\* without a diagnostic.
C24_TruncatedAtInnerErrorPosition ==
    LET holds(r, N) ==
            IF 0 < N /\ N < Len(s)
            THEN /\ r.s = truncate_after_last_container_close(Slice(s, 0, N)).s
                 /\ IsPrefix(r.s, s)
                 /\ CutAtLastCloser(r.s, Slice(s, 0, N))
            ELSE r = Ret(s, <<>>)
    IN  pc = "cut" => holds(truncate_around_error_position(s, error_msg), error_msg.pos)
\* The text was cut at the error position and then after its last } or ].
C24_Witness ==
    /\ pc \in { "trunc", "done" }
    /\ \E k \in 1..(Len(diagnostics) - 1) :
          /\ diagnostics[k].msg = "truncated trailing garbage after last '}'/']'"
          /\ diagnostics[k + 1].msg = "truncated text around JSON parse error position"


\* The number of backslashes that stand immediately before index k of T.
RECURSIVE BackslashesBefore(_, _)
BackslashesBefore(T, k) ==
    IF k > 0 /\ At(T, k - 1) = BS THEN 1 + BackslashesBefore(T, k - 1) ELSE 0
\* The character of T at index k is a quote that no backslash escapes.
UnescapedQuote(T, k) == At(T, k) = Q /\ BackslashesBefore(T, k) % 2 = 0
\* The unescaped quotes of T after index a.
QuotesAfter(T, a) == { j \in (a + 1)..(Len(T) - 1) : UnescapedQuote(T, j) }
\* T ends inside a string literal: its unescaped quotes are odd in number.
EndsInString(T) == Cardinality(QuotesAfter(T, -1)) % 2 = 1

\* C25: the ranges _compute_string_ranges returns are disjoint and in
\* increasing order, each starts at an unescaped quote and ends at the next
\* unescaped quote, so a backslash makes the quote after it a character of
\* the string, but that the last range ends at the last character of the
\* text when no unescaped quote follows its start, which is the case
\* exactly when the text ends inside a string literal.
C25_StringRanges ==
    LET closed(a, b) ==
            /\ b \in QuotesAfter(s, a)
            /\ \A j \in QuotesAfter(s, a) : b <= j
        holds(ranges) ==
            /\ \A k \in 1..(Len(ranges) - 1) : ranges[k][2] < ranges[k + 1][1]
            /\ \A k \in 1..Len(ranges) :
                  /\ UnescapedQuote(s, ranges[k][1])
                  /\ ranges[k][1] <= ranges[k][2] /\ ranges[k][2] < Len(s)
                  /\ k < Len(ranges) => closed(ranges[k][1], ranges[k][2])
            /\ IF EndsInString(s)
               THEN /\ ranges # <<>>
                    /\ ranges[Len(ranges)][2] = Len(s) - 1
                    /\ QuotesAfter(s, ranges[Len(ranges)][1]) = {}
               ELSE ranges # <<>> =>
                        closed(ranges[Len(ranges)][1], ranges[Len(ranges)][2])
            /\ 2 * Len(ranges) = Cardinality(QuotesAfter(s, -1))
                                   + (IF EndsInString(s) THEN 1 ELSE 0)
    IN  holds(compute_string_ranges(s))
\* The text a transform is given has a string literal with an escaped quote
\* in it and ends inside a later string literal.
C25_Witness ==
    LET reached(ranges) ==
            /\ Len(ranges) >= 2 /\ EndsInString(s)
            /\ \E j \in ranges[1][1]..ranges[1][2] :
                  At(s, j) = Q /\ ~UnescapedQuote(s, j)
    IN  pc = "literals" /\ reached(compute_string_ranges(s))


\* { "a": [ {"x":1} {"x":2} ] }
MissingCommaExample ==
    <<"{", SP, Q, "a", Q, ":", SP, "[", SP, "{", Q, "x", Q, ":", "1", "}", SP,
      "{", Q, "x", Q, ":", "2", "}", SP, "]", SP, "}">>
\* A } or ] of T outside every string literal is followed, after the
\* whitespace if there is some, by a {, a [ or the opening quote of a string
\* literal.
CloserBeforeOpener(T) ==
    LET found(ranges) ==
            \E k \in 0..(Len(T) - 1) :
                /\ At(T, k) \in { "}", "]" }
                /\ \A n \in 1..Len(ranges) : k < ranges[n][1] \/ ranges[n][2] < k
                /\ LET j == re_ws(T, k + 1) IN
                   /\ j < Len(T)
                   /\ \/ At(T, j) \in { "{", "[" }
                      \/ \E n \in 1..Len(ranges) : ranges[n][1] = j
    IN  found(compute_string_ranges(T))
\* The value a text parses to is an object whose only key is a, with an
\* array of two items.
ArrayOfTwo(r) ==
    /\ r.ok /\ r.val.t = "obj" /\ r.val.ks = << <<"a">> >>
    /\ r.val.vs[1].t = "arr" /\ Len(r.val.vs[1].vs) = 2

\* C26: in the text insert_missing_commas returns no } or ] outside strings
\* is followed by a {, a [ or an opening quote, one more iteration of its
\* loop leaves that text as it is, and { "a": [ {"x":1} {"x":2} ] } is
\* repaired, when there is a pass at all, to an object whose a is an array
\* of two items.
C26_CommasInserted ==
    /\ pc = "trailing" => (~CloserBeforeOpener(s) /\ insert_commas_once(s) = s)
    /\ (raw = MissingCommaExample /\ max_passes >= 1 /\ pc \in { "done", "returned" }) =>
           (out.ok /\ ArrayOfTwo(json_loads(s)))
\* insert_missing_commas was given a text with a } before a { and has
\* returned it with the comma.
C26_Witness ==
    /\ pc = "trailing" /\ raw = MissingCommaExample
    /\ Count(s, ",") = 1 /\ ~CloserBeforeOpener(s)


\* C27: smart_insert_brackets_by_error returns the text unchanged and
\* without a diagnostic for every error whose message is not
\* "Expecting ',' delimiter", that of a missing colon included, and for
\* every error whose line number is greater than the number of lines of the
\* text: so it does for the error of the pass at its step of the driver,
\* and for the error of a strict parse of the text at every step.
C27_SmartInsertOnlyOnMissingComma ==
    LET unchanged(e) ==
            (e.kind # "Expecting ',' delimiter" \/ e.line > Len(split(s))) =>
                smart_insert_brackets_by_error(s, e) = Ret(s, <<>>)
        parsed(o) == ~o.ok => unchanged(o)
    IN  /\ pc = "smart" => unchanged(error_msg)
        /\ parsed(try_parse_json(s))
\* The step of smart_insert_brackets_by_error has left a text as it was
\* for a missing colon.
C27_Witness ==
    /\ pc = "loop" /\ p >= 1 /\ error_msg.kind = "Expecting ':' delimiter"
    /\ error_msg.line <= Len(split(s))
    /\ Len(diagnostics) >= 1
    /\ diagnostics[Len(diagnostics)].msg # "parsed successfully after smart fix"


\* The 'still invalid JSON -> <error>' entries of a list of diagnostics.
IsStillInvalid(d) == d.msg = "still invalid JSON -> %s"
StillInvalidOf(ds) == SelectSeq(ds, IsStillInvalid)

\* C28: a pass whose first strict parse fails appends one
\* 'still invalid JSON' entry and no other step appends one; the entries of
\* an outcome are tagged pass1, pass2, ... in order; an Unresolved outcome
\* has max_passes of them, and a Parsed outcome returned in pass p has p - 1
\* of them when the first parse of pass p succeeded and p of them when a
\* recovery step of pass p succeeded.
C28_OneStillInvalidPerFailedPass ==
    /\ [](LET last == diagnostics[Len(diagnostics)]
              returned(si) ==
                  /\ \A k \in 1..Len(si) : si[k].tag = "pass" /\ si[k].p = k
                  /\ IF out.ok /\ diagnostics # <<>> /\ last.msg \in ParsedNotes
                     THEN Len(si) = IF last.msg = "parsed successfully" THEN p - 1 ELSE p
                     ELSE Len(si) = max_passes
          IN  pc \in { "done", "returned" } => returned(StillInvalidOf(diagnostics)))
    /\ [][LET parsed(o) ==
                  IF pc = "parse" /\ ~o.ok
                  THEN diagnostics' = Append(diagnostics, StillInvalid(p, o))
                  ELSE \/ diagnostics' = <<>>
                       \/ StillInvalidOf(diagnostics') = StillInvalidOf(diagnostics)
          IN  parsed(try_parse_json(s))]_vars
\* An Unresolved outcome of six passes, with its six entries.
C28_Witness ==
    /\ pc = "done" /\ ~out.ok /\ max_passes = DefaultMaxPasses
    /\ Len(StillInvalidOf(diagnostics)) = DefaultMaxPasses

=============================================================================
